---- MODULE Spec2Model ----
(***************************************************************************)
(* Model of the llmx request pipeline: the event stream (ChatStream), the  *)
(* middleware composition (Chain, Apply, Client.Use), the circuit breaker  *)
(* and the retry middleware.                                               *)
(***************************************************************************)
EXTENDS Integers, Sequences, FiniteSets, TLC

(***************************************************************************)
(* Bounds of the model.                                                    *)
(***************************************************************************)
\* goroutines that use one ChatStream
NumProcs == 2
\* capacity of the events queue (100 in NewChatStream, scaled down)
EventsCap == 2
\* capacity of the errors queue (10 in NewChatStream, scaled down)
ErrorsCap == 1
\* SendEvent / SendError calls made on one stream
MaxSends == 3
\* middlewares registered on one client, or passed to one Chain / Apply
MaxMiddlewares == 3
\* concurrent callers of one circuit breaker middleware
NumCalls == 2
\* largest maxFailures, resetSuccesses and halfOpenRequests of a breaker
MaxThreshold == 2
\* largest open timeout of a breaker, in clock ticks
MaxOpenTimeout == 1
\* last instant of the clock
MaxTime == 3
\* largest maxRetries of a Retry middleware
MaxRetries == 2
\* largest Base of an ExponentialBackoff, in clock ticks
MaxBase == 1
\* largest Max of an ExponentialBackoff, in clock ticks
MaxBackoff == 2
\* width of a duration in bits (64 for time.Duration, scaled down)
DurationBits == 8
\* largest maxRequests of a sliding window limiter
MaxRequests == 2
\* largest window of a sliding window limiter, in clock ticks
MaxWindow == 2
\* calls made through one rate limiting or per-model middleware
MaxLimitCalls == 3
\* clock ticks in one second, for the token bucket
TicksPerSecond == 2
\* largest refill rate of a token bucket, in tokens per second
MaxRate == 2
\* largest capacity (burst) of a token bucket
MaxBurst == 2
\* calls of Allow on one token bucket
MaxBucketCalls == 4
\* largest timeout of a timeout middleware, in clock ticks
MaxTimeout == 2
\* largest number of messages, and of tools, of a request
MaxItems == 1
\* largest ttl of a cache entry, in clock ticks
MaxTTL == 1
\* calls through one CacheMiddleware
MaxCacheCalls == 3
\* Set and Delete calls on one cache
MaxDirectOps == 2
\* last clock tick of a cache
MaxCacheTime == 2
\* largest base, per-message and per-tool timeout of an AdaptiveTimeout
MaxPart == 2
\* largest maximum timeout of an AdaptiveTimeout
MaxCap == 6
\* largest number of messages, and of tools, of a request given to CalculateTimeout
MaxCount == 2
\* Close, Chat, StreamChat and IsClosed calls made on one client
MaxClientOps == 4

\* largest Base of an ExponentialBackoff whose Next is called on its own
MaxNextBase == 3
\* largest Max of an ExponentialBackoff whose Next is called on its own
MaxNextCap == 4

\* the retry delay RateLimit suggests when Allow refuses, in seconds
RetryAfterSeconds == 1

VARIABLES
    \* ---- ChatStream (stream.go) ----
    events,        \* buffered channel s.events: the queued events
    errors,        \* buffered channel s.errors: the queued errors
    done,          \* s.done is closed
    eventsClosed,  \* s.events is closed
    errorsClosed,  \* s.errors is closed
    once,          \* s.once: "fresh", "running" (first Close inside Do), "done"
    mu,            \* s.mu: 0 when free, else the goroutine that holds it
    accumulated,   \* s.accumulated.Content, as the sequence of appended texts
    ctxDone,       \* s.ctx is cancelled
    pc,            \* position of each goroutine in the stream method it runs
    op,            \* what the goroutine is sending
    wake,          \* which select case woke a parked sender
    panicked,      \* a goroutine panicked (send on closed channel)
    sends,         \* number of send calls started
    closeReturned, \* some call of Close() has returned
    lateSend,      \* the goroutine's current send started after a Close() returned
    lateEnqueued,  \* a send started after Close() returned put something in a queue
    accepted       \* the events the events queue accepted so far, in order

streamVars == <<events, errors, done, eventsClosed, errorsClosed, once, mu,
                accumulated, ctxDone, pc, op, wake, panicked, sends,
                closeReturned, lateSend, lateEnqueued, accepted>>

VARIABLES
    \* ---- Client and middleware composition (client.go, middleware.go) ----
    middlewares,   \* c.middlewares, in registration order
    handler,       \* c.handler, the cached chain (NilHandler before the first Use)
    called,        \* what the last call ran, in order
    calledWith,    \* the middleware list the last call was composed from
    calledBy       \* "none", "Chat", "Chain" or "Apply"

chainVars == <<middlewares, handler, called, calledWith, calledBy>>

VARIABLES
    \* ---- CircuitBreaker and its middleware (middleware.go) ----
    cb,              \* the CircuitBreaker: configuration and state fields
    now,             \* the clock (time.Now)
    callPc,          \* each caller of the middleware: "idle" or "next" (in the wrapped handler)
    callResult,      \* the error of the caller's last completed call
    invoked,         \* the caller's current or last call reached the wrapped handler
    prev,            \* the breaker and the clock before the last operation
    lastOp,          \* the last operation: kind, caller, and whether it admitted
    episodeAdmitted, \* calls admitted since the breaker last became HalfOpen
    streak,          \* failures recorded in Closed since the last success or since closing
    handled,         \* the error the wrapped handler returned to the caller's current or last call
    records          \* what the caller's current or last call recorded on the breaker, in order

breakerVars == <<cb, now, callPc, callResult, invoked, prev, lastOp,
                 episodeAdmitted, streak, handled, records>>

VARIABLES
    \* ---- Retry middleware (ratelimit_test.go, second part) ----
    maxRetries,     \* the first argument of Retry
    backoff,        \* the ExponentialBackoff: Base and Max
    rpc,            \* position of the call: "loop", "next", "select", "parked", "woken", "done"
    attempt,        \* the loop variable
    err,            \* the err variable: the error of the last attempt
    delay,          \* the delay of the current sleep
    rwake,          \* what ended the sleep of a parked call: "timer" or "ctx"
    rctxDone,       \* the context of the call is cancelled
    result,         \* what the call returned: resp and err
    exit,           \* the return statement taken
    invocations,    \* invocations of the wrapped handler
    outcomes,       \* what each invocation of the wrapped handler returned
    sleeps,         \* the delays the call started to sleep, in order
    cancelledInSleep, \* the context was cancelled while the call was parked in its sleep
    invAtCancel     \* invocations made when the context was cancelled

retryVars == <<maxRetries, backoff, rpc, attempt, err, delay, rwake, rctxDone,
               result, exit, invocations, outcomes, sleeps, cancelledInSleep,
               invAtCancel>>

VARIABLES
    \* ---- rate limiting and the per-model registries (ratelimit.go, middleware.go) ----
    lkind,          \* the middleware in use: "RateLimit", "RateLimitPerModel" or "CircuitBreakerPerModel"
    lwait,          \* the wait argument of RateLimit / RateLimitPerModel
    lfactory,       \* what the injected factory builds (the limiter or breaker configuration)
    registry,       \* m.limiters / p.breakers: model -> instance (0 when absent)
    instances,      \* the limiters or breakers created so far; an instance is its index
    lclock,         \* the clock, in ticker periods (50ms)
    lpc,            \* position of each caller in the middleware
    lreq,           \* req.Model of the caller's request
    lim,            \* the limiter or breaker the caller obtained (0: none yet)
    lticker,        \* when the caller's Wait ticker was created or last received from
    lctxDone,       \* the caller's context is cancelled
    lresult,        \* what the caller's call returned
    lhandlerCalls,  \* invocations of the wrapped handler by the caller's current call
    ladmitted,      \* the limiter or breaker admitted the caller's current call
    lcalls,         \* calls started
    factoryCalls,   \* the models for which the factory was invoked, in order
    admissions,     \* the admissions of the limiters: instance and time, in order
    windowed,       \* every Allow so far admitted exactly when fewer than maxRequests earlier admissions of its limiter lay in its trailing window
    pruned,         \* every Allow so far kept exactly the timestamps not older than now - window, and added now exactly when it admitted
    lgot,           \* per caller: admissions its calls of Allow recorded during the current request
    touched         \* <<instance, model>>: a call for the model changed the instance

limitVars == <<lkind, lwait, lfactory, registry, instances, lclock, lpc, lreq,
               lim, lticker, lctxDone, lresult, lhandlerCalls, ladmitted, lcalls,
               factoryCalls, admissions, windowed, pruned, lgot, touched>>

VARIABLES
    \* ---- TokenBucketLimiter (ratelimit.go) ----
    bucket,         \* the limiter: limit (tokens per second), burst, tokens, last
    bclock,         \* the clock, in ticks of 1/TicksPerSecond second
    allows          \* the calls of Allow so far: time and answer, in order

bucketVars == <<bucket, bclock, allows>>

VARIABLES
    \* ---- Timeout, TimeoutPerModel, AdaptiveTimeout (circuitbreaker_test.go) ----
    tkind,          \* the middleware in use
    tconf,          \* its configuration
    treq,           \* the request of the call: model, number of messages, number of tools
    tclock,         \* the clock
    tinbound,       \* the inbound context: whether it has a deadline, and the deadline
    tinCancelled,   \* the inbound context was cancelled by the caller
    tentry,         \* when the middleware was entered
    ttimeout,       \* the timeout the middleware computed
    tdeadline,      \* the deadline of the derived context
    tctxErr,        \* ctx.Err() of the derived context ("" while it is not done)
    tpc,            \* position of the middleware: "idle", "select", "done"
    hpc,            \* position of the goroutine that runs the wrapped handler: "none", "running", "sending", "delivered"
    resultChan,     \* the buffered channel of capacity 1
    tresult,        \* what the middleware returned
    hreturned       \* what the wrapped handler returned

timeoutVars == <<tkind, tconf, treq, tclock, tinbound, tinCancelled, tentry,
                 ttimeout, tdeadline, tctxErr, tpc, hpc, resultChan, tresult,
                 hreturned>>

VARIABLES
    \* ---- MemoryCache and CacheMiddleware (middleware.go) ----
    cmode,          \* how the cache is used: "middleware" or "direct"
    cttl,           \* the ttl argument of CacheMiddleware
    items,          \* c.items: key -> value and expiration (NoItem when absent)
    cclock,         \* the clock
    cops,           \* calls through the middleware, or Set / Delete calls, so far
    cpc,            \* position of each caller in CacheMiddleware
    creq,           \* the caller's request
    cresult,        \* what the caller's call returned (while in the handler: nothing yet)
    chandlerCalls,  \* invocations of the wrapped handler by the caller's current call
    cprior,         \* contents of the calls with the caller's key that had returned, their ttl not elapsed, when the caller looked up
    cfresh,         \* the last Set under the caller's key, its ttl not elapsed, when the caller looked up
    cafterFail,     \* the caller's call is the first to enter after a call with its key failed
    returned,       \* the successful calls that stored and returned, their ttl not elapsed: key, content, time of the Set
    lastSet,        \* the last Set of the middleware under each key, and the request it was computed for
    failNext,       \* a call with the key failed and no call with the key has entered since
    successes,      \* <<key, content>>: the handler returned the content without error
    lastWrite,      \* the last Set or Delete called directly on each key
    lastGet         \* the last Get called directly: key, answer, time, and the last Set or Delete on the key before it

cacheVars == <<cmode, cttl, items, cclock, cops, cpc, creq, cresult,
               chandlerCalls, cprior, cfresh, cafterFail, returned, lastSet,
               failNext, successes, lastWrite, lastGet>>

VARIABLES
    \* ---- AdaptiveTimeout.CalculateTimeout (circuitbreaker_test.go) ----
    acfg,           \* the AdaptiveTimeout: baseTimeout, perMessage, perTool, maxTimeout
    areq,           \* the request of the last CalculateTimeout call
    acalls,         \* CalculateTimeout calls made
    aout            \* what the last CalculateTimeout call returned

adaptiveVars == <<acfg, areq, acalls, aout>>

VARIABLES
    \* ---- Client.Close, checkClosed, IsClosed, Chat, StreamChat (client.go) ----
    kclosed,        \* c.closed
    kcloseOnce,     \* c.closeOnce: "fresh", "running", "done"
    khandler,       \* c.handler is not nil (a middleware was registered)
    kpc,            \* position of each caller: "idle", "closing", "close_return", "once_wait", "invoke"
    kop,            \* the caller's current or last call: "none", "Close", "Chat", "StreamChat", "IsClosed"
    kresult,        \* the error the caller's last call returned
    kreached,       \* what the caller's current or last call invoked: "none", "handler", "provider"
    klate,          \* the caller's current or last call started after a Close had returned
    kcloseReturned, \* some Close call has returned
    kseen,          \* the last IsClosed: its value, and whether no Close had started / one had returned
    kops            \* calls made

lifeVars == <<kclosed, kcloseOnce, khandler, kpc, kop, kresult, kreached, klate,
              kcloseReturned, kseen, kops>>

VARIABLES
    \* ---- ChatStream.Accumulate (stream.go) ----
    apc,            \* the consumer's Accumulate call: "none", "select" (in the loop), "done"
    accResult       \* what Accumulate returned, and the stream as it was then

accVars == <<apc, accResult>>

VARIABLES
    \* ---- Client.SimpleStreamChat (convenience.go) ----
    spc,            \* the call: "none", "select" (in the loop), "defer", the steps of the deferred Close, "returned"
    chunks,         \* the texts onChunk was called with, in order
    sresult         \* the error SimpleStreamChat returns, and the text deltas left in the queue then

simpleVars == <<spc, chunks, sresult>>

VARIABLES
    \* ---- a provider's handleStream (provider/google/stream.go, part_006) ----
    prodPc,            \* the producer: "start", "loop", "return" (the deferred Close is next), "closing", "exited"
    prodLog            \* the calls the producer made on the stream, in order

producerVars == <<prodPc, prodLog>>

VARIABLES
    \* ---- ExponentialBackoff.Next on its own (ratelimit_test.go, second part) ----
    nbackoff,       \* the ExponentialBackoff: Base and Max
    nattempt,       \* the argument of the last call of Next
    nout,           \* what it returned
    ncalls          \* calls made

backoffVars == <<nbackoff, nattempt, nout, ncalls>>

vars == <<streamVars, chainVars, breakerVars, retryVars, limitVars,
         bucketVars, timeoutVars, cacheVars, adaptiveVars, lifeVars,
         accVars, simpleVars, producerVars, backoffVars>>

\* what the operations of one component leave alone
otherThanStream ==
    <<chainVars, breakerVars, retryVars, limitVars,
      bucketVars, timeoutVars, cacheVars, adaptiveVars, lifeVars, accVars,
      simpleVars, producerVars, backoffVars>>
otherThanClient ==
    <<streamVars, breakerVars, retryVars, limitVars,
      bucketVars, timeoutVars, cacheVars, adaptiveVars, lifeVars, accVars,
      simpleVars, producerVars, backoffVars>>
otherThanBreaker ==
    <<streamVars, chainVars, retryVars, limitVars,
      bucketVars, timeoutVars, cacheVars, adaptiveVars, lifeVars, accVars,
      simpleVars, producerVars, backoffVars>>
otherThanRetry ==
    <<streamVars, chainVars, breakerVars, limitVars,
      bucketVars, timeoutVars, cacheVars, adaptiveVars, lifeVars, accVars,
      simpleVars, producerVars, backoffVars>>
otherThanLimit ==
    <<streamVars, chainVars, breakerVars, retryVars,
      bucketVars, timeoutVars, cacheVars, adaptiveVars, lifeVars, accVars,
      simpleVars, producerVars, backoffVars>>
otherThanBucket ==
    <<streamVars, chainVars, breakerVars, retryVars,
      limitVars, timeoutVars, cacheVars, adaptiveVars, lifeVars, accVars,
      simpleVars, producerVars, backoffVars>>
otherThanTimeout ==
    <<streamVars, chainVars, breakerVars, retryVars,
      limitVars, bucketVars, cacheVars, adaptiveVars, lifeVars, accVars,
      simpleVars, producerVars, backoffVars>>
otherThanCache ==
    <<streamVars, chainVars, breakerVars, retryVars,
      limitVars, bucketVars, timeoutVars, adaptiveVars, lifeVars, accVars,
      simpleVars, producerVars, backoffVars>>
otherThanAdaptive ==
    <<streamVars, chainVars, breakerVars, retryVars,
      limitVars, bucketVars, timeoutVars, cacheVars, lifeVars, accVars,
      simpleVars, producerVars, backoffVars>>
otherThanLife ==
    <<streamVars, chainVars, breakerVars, retryVars,
      limitVars, bucketVars, timeoutVars, cacheVars, adaptiveVars, accVars,
      simpleVars, producerVars, backoffVars>>
otherThanAccumulate ==
    <<chainVars, breakerVars, retryVars, limitVars,
      bucketVars, timeoutVars, cacheVars, adaptiveVars, lifeVars,
      simpleVars, producerVars, backoffVars>>
otherThanSimple ==
    <<chainVars, breakerVars, retryVars, limitVars, bucketVars,
      timeoutVars, cacheVars, adaptiveVars, lifeVars, accVars,
      producerVars, backoffVars>>
otherThanProducer ==
    <<chainVars, breakerVars, retryVars, limitVars, bucketVars,
      timeoutVars, cacheVars, adaptiveVars, lifeVars, accVars,
      simpleVars, backoffVars>>
otherThanBackoff ==
    <<streamVars, chainVars, breakerVars, retryVars, limitVars,
      bucketVars, timeoutVars, cacheVars, adaptiveVars, lifeVars,
      accVars, simpleVars, producerVars>>

(***************************************************************************)
(* ChatStream                                                              *)
(***************************************************************************)
Procs == 1..NumProcs

\* core.StreamEvent: Type, and Data with whether it is a Go string
StreamEvents ==
    { [Type |-> "text-delta", IsString |-> TRUE,  Data |-> "a"],
      [Type |-> "text-delta", IsString |-> TRUE,  Data |-> "b"],
      [Type |-> "text-delta", IsString |-> FALSE, Data |-> "x"],
      [Type |-> "finish",     IsString |-> FALSE, Data |-> "stop"],
      [Type |-> "error",      IsString |-> FALSE, Data |-> "e1"] }

StreamErrors == {"e1"}

NoOp == [kind |-> "none"]

\* NewChatStream
NewChatStream ==
    /\ events = <<>>
    /\ errors = <<>>
    /\ done = FALSE
    /\ eventsClosed = FALSE
    /\ errorsClosed = FALSE
    /\ once = "fresh"
    /\ mu = 0
    /\ accumulated = <<>>
    /\ ctxDone \in BOOLEAN
    /\ pc = [p \in Procs |-> "idle"]
    /\ op = [p \in Procs |-> NoOp]
    /\ wake = [p \in Procs |-> "none"]
    /\ panicked = FALSE
    /\ sends = 0
    /\ closeReturned = FALSE
    /\ lateSend = [p \in Procs |-> FALSE]
    /\ lateEnqueued = FALSE
    /\ accepted = <<>>

\* an accumulator that folds the payload of every event
Accumulate_every(content, event) == Append(content, event.Data)

\* the text a SendEvent appends to accumulated.Content
Accumulate_text(content, event) ==
    IF event.Type = "text-delta" /\ event.IsString
    THEN Append(content, event.Data)
    ELSE content

\* a goroutine calls SendEvent(event): it goes for s.mu
SendEvent(p, event) ==
    /\ ~panicked
    /\ pc[p] = "idle"
    /\ sends < MaxSends
    /\ sends' = sends + 1
    /\ pc' = [pc EXCEPT ![p] = "lock"]
    /\ op' = [op EXCEPT ![p] = [kind |-> "event", val |-> event]]
    /\ lateSend' = [lateSend EXCEPT ![p] = closeReturned]
    /\ UNCHANGED <<events, errors, done, eventsClosed, errorsClosed, once, mu,
                   accumulated, ctxDone, wake, panicked, closeReturned,
                   lateEnqueued, accepted>>
    /\ UNCHANGED otherThanStream

\* a goroutine calls SendError(err): it goes for s.mu
SendError(p, e) ==
    /\ ~panicked
    /\ pc[p] = "idle"
    /\ sends < MaxSends
    /\ sends' = sends + 1
    /\ pc' = [pc EXCEPT ![p] = "lock"]
    /\ op' = [op EXCEPT ![p] = [kind |-> "error", val |-> e]]
    /\ lateSend' = [lateSend EXCEPT ![p] = closeReturned]
    /\ UNCHANGED <<events, errors, done, eventsClosed, errorsClosed, once, mu,
                   accumulated, ctxDone, wake, panicked, closeReturned,
                   lateEnqueued, accepted>>
    /\ UNCHANGED otherThanStream

\* s.mu.Lock() of SendEvent / SendError
SendLock(p) ==
    /\ ~panicked
    /\ pc[p] = "lock"
    /\ mu = 0
    /\ mu' = p
    /\ pc' = [pc EXCEPT ![p] = "select"]
    /\ UNCHANGED <<events, errors, done, eventsClosed, errorsClosed, once,
                   accumulated, ctxDone, op, wake, panicked, sends,
                   closeReturned, lateSend, lateEnqueued, accepted>>
    /\ UNCHANGED otherThanStream

\* the queue and the closed flag of the channel the goroutine sends on
SendQueue(p) == IF op[p].kind = "event" THEN events ELSE errors
SendCap(p) == IF op[p].kind = "event" THEN EventsCap ELSE ErrorsCap
SendClosed(p) == IF op[p].kind = "event" THEN eventsClosed ELSE errorsClosed

\* the select cases that can proceed when the select statement is entered;
\* a send on a closed channel can proceed: it panics
SelectReady(p) ==
    (IF done THEN {"done"} ELSE {})
    \cup (IF SendClosed(p) THEN {"panic"}
          ELSE IF Len(SendQueue(p)) < SendCap(p) THEN {"send"} ELSE {})
    \cup (IF ctxDone THEN {"ctx"} ELSE {})

\* deferred s.mu.Unlock() and return
SendReturn(p) ==
    /\ mu' = 0
    /\ pc' = [pc EXCEPT ![p] = "idle"]
    /\ op' = [op EXCEPT ![p] = NoOp]
    /\ wake' = [wake EXCEPT ![p] = "none"]
    /\ lateSend' = [lateSend EXCEPT ![p] = FALSE]

\* the select of SendEvent / SendError, one of the cases that can proceed
\* is chosen (Go picks among them at random)
SendSelect(p) ==
    /\ ~panicked
    /\ pc[p] = "select"
    /\ \E c \in SelectReady(p) :
        \/ /\ c \in {"done", "ctx"}
           /\ SendReturn(p)
           /\ UNCHANGED <<events, errors, accumulated, panicked, lateEnqueued, accepted>>
        \/ /\ c = "send"
           /\ IF op[p].kind = "event"
              THEN /\ events' = Append(events, op[p].val)
                   /\ accepted' = Append(accepted, op[p].val)
                   /\ accumulated' = Accumulate_text(accumulated, op[p].val)
                   /\ UNCHANGED errors
              ELSE /\ errors' = Append(errors, op[p].val)
                   /\ UNCHANGED <<events, accumulated, accepted>>
           /\ lateEnqueued' = (lateEnqueued \/ lateSend[p])
           /\ SendReturn(p)
           /\ UNCHANGED panicked
        \/ /\ c = "panic"
           /\ panicked' = TRUE
           /\ mu' = 0
           /\ pc' = [pc EXCEPT ![p] = "panicked"]
           /\ UNCHANGED <<events, errors, accumulated, op, wake, lateSend,
                          lateEnqueued, accepted>>
    /\ UNCHANGED <<done, eventsClosed, errorsClosed, once, ctxDone, sends,
                   closeReturned>>
    /\ UNCHANGED otherThanStream

\* no case can proceed: the goroutine parks on all three channels, holding s.mu
SendPark(p) ==
    /\ ~panicked
    /\ pc[p] = "select"
    /\ SelectReady(p) = {}
    /\ pc' = [pc EXCEPT ![p] = "parked"]
    /\ UNCHANGED <<events, errors, done, eventsClosed, errorsClosed, once, mu,
                   accumulated, ctxDone, op, wake, panicked, sends,
                   closeReturned, lateSend, lateEnqueued, accepted>>
    /\ UNCHANGED otherThanStream

\* a parked sender runs again with the case that woke it
SendResume(p) ==
    /\ ~panicked
    /\ pc[p] = "woken"
    /\ accumulated' = IF wake[p] = "sent" /\ op[p].kind = "event"
                      THEN Accumulate_text(accumulated, op[p].val)
                      ELSE accumulated
    /\ SendReturn(p)
    /\ UNCHANGED <<events, errors, done, eventsClosed, errorsClosed, once,
                   ctxDone, panicked, sends, closeReturned, lateEnqueued,
                   accepted>>
    /\ UNCHANGED otherThanStream

\* the senders parked in their select
Parked == { p \in Procs : pc[p] = "parked" }

\* pc and wake after the senders S are woken by case c
WakeParked(c, S) ==
    /\ pc' = [p \in Procs |-> IF p \in S THEN "woken" ELSE pc[p]]
    /\ wake' = [p \in Procs |-> IF p \in S THEN c ELSE wake[p]]

\* a cancellation that the senders parked in their select do not observe
CancelStream_unobserved ==
    /\ ~panicked
    /\ ~ctxDone
    /\ ctxDone' = TRUE
    /\ UNCHANGED <<events, errors, done, eventsClosed, errorsClosed, once, mu,
                   accumulated, op, panicked, sends, closeReturned, lateSend,
                   lateEnqueued, accepted, pc, wake>>
    /\ UNCHANGED otherThanStream

\* the context of the stream is cancelled: ctx.Done() is closed
CancelStream ==
    /\ ~panicked
    /\ ~ctxDone
    /\ ctxDone' = TRUE
    /\ WakeParked("ctx", Parked)
    /\ UNCHANGED <<events, errors, done, eventsClosed, errorsClosed, once, mu,
                   accumulated, op, panicked, sends, closeReturned, lateSend,
                   lateEnqueued, accepted>>
    /\ UNCHANGED otherThanStream

\* a Close() that runs the closing function whatever s.once says
Close_unguarded(p) ==
    /\ ~panicked
    /\ pc[p] = "idle"
    /\ once' = "running"
    /\ pc' = [pc EXCEPT ![p] = "close_done"]
    /\ UNCHANGED <<events, errors, done, eventsClosed, errorsClosed, mu,
                   accumulated, ctxDone, op, wake, panicked, sends, lateSend,
                   lateEnqueued, accepted, closeReturned>>
    /\ UNCHANGED otherThanStream

\* Close(): s.once.Do; the first caller runs the function, a caller that
\* arrives while it runs waits, a later caller returns at once
Close(p) ==
    /\ ~panicked
    /\ pc[p] = "idle"
    /\ \/ /\ once = "fresh"
          /\ once' = "running"
          /\ pc' = [pc EXCEPT ![p] = "close_done"]
          /\ UNCHANGED closeReturned
       \/ /\ once = "running"
          /\ pc' = [pc EXCEPT ![p] = "once_wait"]
          /\ UNCHANGED <<once, closeReturned>>
       \/ /\ once = "done"
          /\ closeReturned' = TRUE
          /\ UNCHANGED <<once, pc>>
    /\ UNCHANGED <<events, errors, done, eventsClosed, errorsClosed, mu,
                   accumulated, ctxDone, op, wake, panicked, sends, lateSend,
                   lateEnqueued, accepted>>
    /\ UNCHANGED otherThanStream

\* close(s.done): wakes the parked senders with the done case
CloseDone(p) ==
    /\ ~panicked
    /\ pc[p] = "close_done"
    /\ done' = TRUE
    /\ pc' = [q \in Procs |-> IF q = p THEN "close_events"
                              ELSE IF q \in Parked THEN "woken" ELSE pc[q]]
    /\ wake' = [q \in Procs |-> IF q \in Parked THEN "done" ELSE wake[q]]
    /\ UNCHANGED <<events, errors, eventsClosed, errorsClosed, once, mu,
                   accumulated, ctxDone, op, panicked, sends, closeReturned,
                   lateSend, lateEnqueued, accepted>>
    /\ UNCHANGED otherThanStream

\* close(s.events)
CloseEvents(p) ==
    /\ ~panicked
    /\ pc[p] = "close_events"
    /\ eventsClosed' = TRUE
    /\ pc' = [pc EXCEPT ![p] = "close_errors"]
    /\ UNCHANGED <<events, errors, done, errorsClosed, once, mu, accumulated,
                   ctxDone, op, wake, panicked, sends, closeReturned, lateSend,
                   lateEnqueued, accepted>>
    /\ UNCHANGED otherThanStream

\* close(s.errors), the end of once.Do, return nil
CloseErrors(p) ==
    /\ ~panicked
    /\ pc[p] = "close_errors"
    /\ errorsClosed' = TRUE
    /\ once' = "done"
    /\ closeReturned' = TRUE
    /\ pc' = [pc EXCEPT ![p] = "idle"]
    /\ UNCHANGED <<events, errors, done, eventsClosed, mu, accumulated,
                   ctxDone, op, wake, panicked, sends, lateSend,
                   lateEnqueued, accepted>>
    /\ UNCHANGED otherThanStream

\* a Close() that waited in once.Do returns nil
CloseWaited(p) ==
    /\ ~panicked
    /\ pc[p] = "once_wait"
    /\ once = "done"
    /\ closeReturned' = TRUE
    /\ pc' = [pc EXCEPT ![p] = "idle"]
    /\ UNCHANGED <<events, errors, done, eventsClosed, errorsClosed, once, mu,
                   accumulated, ctxDone, op, wake, panicked, sends, lateSend,
                   lateEnqueued, accepted>>
    /\ UNCHANGED otherThanStream

\* the senders parked on the send to s.events, and to s.errors
ParkedOnEvents == { p \in Parked : op[p].kind = "event" }
ParkedOnErrors == { p \in Parked : op[p].kind = "error" }

\* a consumer receives from Events(); a sender parked on the full queue
\* has its event moved into the queue and is woken
RecvEvent(p) ==
    /\ ~panicked
    /\ pc[p] = "idle"
    /\ Len(events) > 0
    /\ IF ParkedOnEvents # {}
       THEN LET q == CHOOSE q \in ParkedOnEvents : TRUE
            IN /\ events' = Append(Tail(events), op[q].val)
               /\ lateEnqueued' = (lateEnqueued \/ lateSend[q])
               /\ accepted' = Append(accepted, op[q].val)
               /\ WakeParked("sent", {q})
       ELSE /\ events' = Tail(events)
            /\ UNCHANGED <<pc, wake, lateEnqueued, accepted>>
    /\ UNCHANGED <<errors, done, eventsClosed, errorsClosed, once, mu,
                   accumulated, ctxDone, op, panicked, sends, closeReturned,
                   lateSend>>
    /\ UNCHANGED otherThanStream

\* a consumer receives from Errors()
RecvError(p) ==
    /\ ~panicked
    /\ pc[p] = "idle"
    /\ Len(errors) > 0
    /\ IF ParkedOnErrors # {}
       THEN LET q == CHOOSE q \in ParkedOnErrors : TRUE
            IN /\ errors' = Append(Tail(errors), op[q].val)
               /\ lateEnqueued' = (lateEnqueued \/ lateSend[q])
               /\ UNCHANGED accepted
               /\ WakeParked("sent", {q})
       ELSE /\ errors' = Tail(errors)
            /\ UNCHANGED <<pc, wake, lateEnqueued, accepted>>
    /\ UNCHANGED <<events, done, eventsClosed, errorsClosed, once, mu,
                   accumulated, ctxDone, op, panicked, sends, closeReturned,
                   lateSend>>
    /\ UNCHANGED otherThanStream

\* GetAccumulated(): the call goes for s.mu
GetAccumulated(p) ==
    /\ ~panicked
    /\ pc[p] = "idle"
    /\ pc' = [pc EXCEPT ![p] = "acc_lock"]
    /\ UNCHANGED <<events, errors, done, eventsClosed, errorsClosed, once, mu,
                   accumulated, ctxDone, op, wake, panicked, sends,
                   closeReturned, lateSend, lateEnqueued, accepted>>
    /\ UNCHANGED otherThanStream

\* GetAccumulated(): Lock, read s.accumulated, Unlock, return
GetAccumulatedReturn(p) ==
    /\ ~panicked
    /\ pc[p] = "acc_lock"
    /\ mu = 0
    /\ pc' = [pc EXCEPT ![p] = "idle"]
    /\ UNCHANGED <<events, errors, done, eventsClosed, errorsClosed, once, mu,
                   accumulated, ctxDone, op, wake, panicked, sends,
                   closeReturned, lateSend, lateEnqueued, accepted>>
    /\ UNCHANGED otherThanStream

NextStream ==
    \/ \E p \in Procs, event \in StreamEvents : SendEvent(p, event)
    \/ \E p \in Procs, e \in StreamErrors : SendError(p, e)
    \/ \E p \in Procs : SendLock(p)
    \/ \E p \in Procs : SendSelect(p)
    \/ \E p \in Procs : SendPark(p)
    \/ \E p \in Procs : SendResume(p)
    \/ CancelStream
    \/ \E p \in Procs : Close(p)
    \/ \E p \in Procs : CloseDone(p)
    \/ \E p \in Procs : CloseEvents(p)
    \/ \E p \in Procs : CloseErrors(p)
    \/ \E p \in Procs : CloseWaited(p)
    \/ \E p \in Procs : RecvEvent(p)
    \/ \E p \in Procs : RecvError(p)
    \/ \E p \in Procs : GetAccumulated(p)
    \/ \E p \in Procs : GetAccumulatedReturn(p)

(***************************************************************************)
(* Middleware composition                                                  *)
(***************************************************************************)
\* the middlewares of the model: each records a step before and a step
\* after calling next, as m1 and m2 of TestChain do
MiddlewareIds == {"m1", "m2", "m3"}

SeqsUpTo(S, n) == UNION { [1..k -> S] : k \in 0..n }

\* a Handler is the list of the middlewares wrapped around the base handler,
\* outermost first, ending in the base handler; c.handler is nil at first
NilHandler == <<>>
baseHandler == <<"base">>

\* middlewares[i](next)
Wrap(m, next) == <<m>> \o next

\* for i := len(middlewares) - 1; i >= 0; i-- { next = middlewares[i](next) }
RECURSIVE WrapDownFrom(_, _, _)
WrapDownFrom(next, mws, i) ==
    IF i < 1 THEN next ELSE WrapDownFrom(Wrap(mws[i], next), mws, i - 1)

\* Chain(middlewares...)(next)
Chain(mws, next) == WrapDownFrom(next, mws, Len(mws))

\* Apply(handler, middlewares...)
Apply(h, mws) == WrapDownFrom(h, mws, Len(mws))

\* rebuildHandler wrapping in registration order: the last added is outermost
RECURSIVE WrapUpFrom(_, _, _)
WrapUpFrom(next, mws, i) ==
    IF i > Len(mws) THEN next ELSE WrapUpFrom(Wrap(mws[i], next), mws, i + 1)

rebuildHandler_lastOutermost(mws) == WrapUpFrom(baseHandler, mws, 1)

\* Client.rebuildHandler: the chain built from c.middlewares
rebuildHandler(mws) == WrapDownFrom(baseHandler, mws, Len(mws))

\* invoking a handler: what runs, in order
RECURSIVE Invoke(_)
Invoke(h) ==
    IF Head(h) = "base"
    THEN << [who |-> "base", at |-> "call"] >>
    ELSE << [who |-> Head(h), at |-> "before"] >>
         \o Invoke(Tail(h))
         \o << [who |-> Head(h), at |-> "after"] >>

ClientIdle ==
    /\ middlewares = <<>>
    /\ handler = NilHandler
    /\ called = <<>>
    /\ calledWith = <<>>
    /\ calledBy = "none"

\* Client.Use(mws...)
Use(mws) ==
    /\ Len(middlewares) + Len(mws) <= MaxMiddlewares
    /\ middlewares' = middlewares \o mws
    /\ handler' = rebuildHandler(middlewares')
    /\ UNCHANGED <<called, calledWith, calledBy>>
    /\ UNCHANGED otherThanClient

\* Client.Chat on an open client with a valid request: the cached chain
\* when there is one, the provider directly otherwise
Chat ==
    /\ called' = IF handler # NilHandler THEN Invoke(handler)
                 ELSE << [who |-> "base", at |-> "call"] >>
    /\ calledWith' = middlewares
    /\ calledBy' = "Chat"
    /\ UNCHANGED <<middlewares, handler>>
    /\ UNCHANGED otherThanClient

\* Chain(mws...)(base) is built and called
CallChain(mws) ==
    /\ called' = Invoke(Chain(mws, baseHandler))
    /\ calledWith' = mws
    /\ calledBy' = "Chain"
    /\ UNCHANGED <<middlewares, handler>>
    /\ UNCHANGED otherThanClient

\* Apply(base, mws...) is built and called
CallApply(mws) ==
    /\ called' = Invoke(Apply(baseHandler, mws))
    /\ calledWith' = mws
    /\ calledBy' = "Apply"
    /\ UNCHANGED <<middlewares, handler>>
    /\ UNCHANGED otherThanClient

NextChain ==
    \/ \E mws \in SeqsUpTo(MiddlewareIds, 2) : Use(mws)
    \/ Chat
    \/ \E mws \in SeqsUpTo(MiddlewareIds, MaxMiddlewares) :
          CallChain(mws)
    \/ \E mws \in SeqsUpTo(MiddlewareIds, MaxMiddlewares) :
          CallApply(mws)

(***************************************************************************)
(* Errors (errors.go)                                                      *)
(***************************************************************************)
\* an error value: type "llmx" implements llmx.Error, "generic" does not
NilError == [type |-> "nil", code |-> "", retryable |-> FALSE, msg |-> "", cause |-> ""]
GenericError(msg) ==
    [type |-> "generic", code |-> "", retryable |-> FALSE, msg |-> msg, cause |-> ""]
\* a RateLimitError carries the suggested retry delay besides the BaseError
NewRateLimitError(msg, retryAfter) ==
    [type |-> "llmx", code |-> "rate_limit", retryable |-> TRUE, msg |-> msg, cause |-> "",
     retryAfter |-> retryAfter]
NewAuthenticationError(msg) ==
    [type |-> "llmx", code |-> "authentication", retryable |-> FALSE, msg |-> msg, cause |-> ""]
NewInternalError(msg, cause) ==
    [type |-> "llmx", code |-> "internal", retryable |-> TRUE, msg |-> msg, cause |-> cause]

(***************************************************************************)
(* CircuitBreaker                                                          *)
(***************************************************************************)
Calls == 1..NumCalls

StateClosed == "closed"
StateOpen == "open"
StateHalfOpen == "half-open"

\* NewCircuitBreaker(maxFailures, timeout).WithResetSuccesses(r).WithHalfOpenRequests(h)
NewCircuitBreaker(maxFailures, timeout, r, h) ==
    [ maxFailures |-> maxFailures, timeout |-> timeout,
      resetSuccesses |-> r, halfOpenRequests |-> h,
      state |-> StateClosed, failures |-> 0, successes |-> 0,
      lastFailureTime |-> 0, halfOpenAttempts |-> 0 ]

\* the timeout test admitting at exactly the timeout
TimeoutPassed_inclusive(b, t) == t - b.lastFailureTime >= b.timeout

\* time.Since(cb.lastFailureTime) > cb.timeout
TimeoutPassed(b, t) == t - b.lastFailureTime > b.timeout

\* the threshold test opening one failure late
FailuresReached_late(b) == b.failures > b.maxFailures

\* cb.failures >= cb.maxFailures
FailuresReached(b) == b.failures >= b.maxFailures

\* the threshold test closing one success late
SuccessesReached_late(b) == b.successes > b.resetSuccesses

\* cb.successes >= cb.resetSuccesses
SuccessesReached(b) == b.successes >= b.resetSuccesses

\* the probe limit refusing one probe late
AttemptsExhausted_late(b) == b.halfOpenAttempts > b.halfOpenRequests

\* cb.halfOpenAttempts >= cb.halfOpenRequests
AttemptsExhausted(b) == b.halfOpenAttempts >= b.halfOpenRequests

\* CircuitBreaker.Allow at time t: the breaker afterwards, and the error ("" is nil)
Allow(b, t) ==
    CASE b.state = StateClosed -> [cb |-> b, err |-> ""]
      [] b.state = StateOpen ->
           IF TimeoutPassed(b, t)
           THEN [cb |-> [b EXCEPT !.state = StateHalfOpen, !.halfOpenAttempts = 0],
                 err |-> ""]
           ELSE [cb |-> b, err |-> "circuit breaker is open"]
      [] b.state = StateHalfOpen ->
           IF AttemptsExhausted(b)
           THEN [cb |-> b, err |-> "circuit breaker is half-open, max attempts reached"]
           ELSE [cb |-> [b EXCEPT !.halfOpenAttempts = @ + 1], err |-> ""]
      [] OTHER -> [cb |-> b, err |-> "unknown circuit breaker state"]

\* CircuitBreaker.RecordSuccess
RecordSuccess(b) ==
    CASE b.state = StateClosed -> [b EXCEPT !.failures = 0]
      [] b.state = StateHalfOpen ->
           LET b1 == [b EXCEPT !.successes = @ + 1]
           IN IF SuccessesReached(b1)
              THEN [b1 EXCEPT !.state = StateClosed, !.failures = 0,
                              !.successes = 0, !.halfOpenAttempts = 0]
              ELSE b1
      [] OTHER -> b

\* CircuitBreaker.RecordFailure at time t
RecordFailure(b, t) ==
    LET b0 == [b EXCEPT !.lastFailureTime = t]
    IN CASE b0.state = StateClosed ->
              LET b1 == [b0 EXCEPT !.failures = @ + 1]
              IN IF FailuresReached(b1) THEN [b1 EXCEPT !.state = StateOpen] ELSE b1
         [] b0.state = StateHalfOpen ->
              [b0 EXCEPT !.state = StateOpen, !.successes = 0, !.halfOpenAttempts = 0]
         [] OTHER -> b0

\* what the wrapped handler of the breaker middleware can return
BreakerHandlerErrors ==
    { NewRateLimitError("rate limited", 0), GenericError("service unavailable") }

BreakerIdle ==
    /\ cb = NewCircuitBreaker(1, 0, 1, 1)
    /\ now = 0
    /\ callPc = [c \in Calls |-> "idle"]
    /\ callResult = [c \in Calls |-> NilError]
    /\ invoked = [c \in Calls |-> FALSE]
    /\ prev = [cb |-> cb, now |-> 0]
    /\ lastOp = [kind |-> "none", call |-> 0, admitted |-> FALSE]
    /\ episodeAdmitted = 0
    /\ streak = 0
    /\ handled = [c \in Calls |-> NilError]
    /\ records = [c \in Calls |-> <<>>]

\* resetSuccesses and halfOpenRequests are set independently of each other:
\* the configurations include a resetSuccesses above halfOpenRequests + 1
InitBreaker ==
    /\ \E mf \in 1..MaxThreshold, to \in 0..MaxOpenTimeout,
          r \in 1..(MaxThreshold + 1), h \in 1..MaxThreshold :
          cb = NewCircuitBreaker(mf, to, r, h)
    /\ now = 0
    /\ callPc = [c \in Calls |-> "idle"]
    /\ callResult = [c \in Calls |-> NilError]
    /\ invoked = [c \in Calls |-> FALSE]
    /\ prev = [cb |-> cb, now |-> 0]
    /\ lastOp = [kind |-> "none", call |-> 0, admitted |-> FALSE]
    /\ episodeAdmitted = 0
    /\ streak = 0
    /\ handled = [c \in Calls |-> NilError]
    /\ records = [c \in Calls |-> <<>>]

\* calls admitted in the HalfOpen episode of breaker b1, reached from b0
EpisodeAfter(b0, b1, admittedNow) ==
    IF b1.state # StateHalfOpen THEN 0
    ELSE IF b0.state # StateHalfOpen THEN 1
    ELSE episodeAdmitted + (IF admittedNow THEN 1 ELSE 0)

\* CircuitBreakerMiddleware, up to the call of next: cb.Allow(), and on an
\* error return NewInternalError("circuit breaker: ...", nil)
BreakerEnter(c) ==
    /\ callPc[c] = "idle"
    /\ LET a == Allow(cb, now)
       IN /\ cb' = a.cb
          /\ IF a.err # ""
             THEN /\ callResult' = [callResult EXCEPT ![c] =
                        NewInternalError("circuit breaker: " \o a.err, "")]
                  /\ invoked' = [invoked EXCEPT ![c] = FALSE]
                  /\ UNCHANGED callPc
             ELSE /\ callPc' = [callPc EXCEPT ![c] = "next"]
                  /\ invoked' = [invoked EXCEPT ![c] = TRUE]
                  /\ callResult' = [callResult EXCEPT ![c] = NilError]
          /\ lastOp' = [kind |-> "Allow", call |-> c, admitted |-> (a.err = "")]
          /\ episodeAdmitted' = EpisodeAfter(cb, a.cb, a.err = "")
    /\ prev' = [cb |-> cb, now |-> now]
    /\ handled' = [handled EXCEPT ![c] = NilError]
    /\ records' = [records EXCEPT ![c] = <<>>]
    /\ UNCHANGED <<now, streak>>
    /\ UNCHANGED otherThanBreaker

\* a middleware that counts only the retryable errors as failures
RecordsFailure_retryableOnly(e) == e # NilError /\ e.retryable

\* CircuitBreakerMiddleware: if err != nil, whatever the error
RecordsFailure(e) == e # NilError

\* CircuitBreakerMiddleware after next returned e: cb.RecordFailure() and
\* return nil, err, or cb.RecordSuccess() and return resp, nil
BreakerReturn(c, e) ==
    LET failed == RecordsFailure(e) IN
    /\ callPc[c] = "next"
    /\ handled' = [handled EXCEPT ![c] = e]
    /\ cb' = IF failed THEN RecordFailure(cb, now) ELSE RecordSuccess(cb)
    /\ records' = [records EXCEPT ![c] =
                       Append(@, IF failed THEN "RecordFailure" ELSE "RecordSuccess")]
    /\ callPc' = [callPc EXCEPT ![c] = "idle"]
    /\ callResult' = [callResult EXCEPT ![c] = IF failed THEN e ELSE NilError]
    /\ lastOp' = [kind |-> IF failed THEN "RecordFailure" ELSE "RecordSuccess",
                  call |-> c, admitted |-> FALSE]
    /\ prev' = [cb |-> cb, now |-> now]
    /\ episodeAdmitted' = EpisodeAfter(cb, cb', FALSE)
    /\ streak' = IF failed
                 THEN (IF cb.state = StateClosed THEN streak + 1 ELSE streak)
                 ELSE (IF cb.state = StateClosed \/ cb'.state = StateClosed
                       THEN 0 ELSE streak)
    /\ UNCHANGED <<now, invoked>>
    /\ UNCHANGED otherThanBreaker

\* CircuitBreakerMiddleware, next returned nil error: cb.RecordSuccess()
BreakerSuccess(c) == BreakerReturn(c, NilError)

\* CircuitBreakerMiddleware, next returned err: cb.RecordFailure(), return err
BreakerFailure(c, e) == BreakerReturn(c, e)

\* time passes
Tick ==
    /\ now < MaxTime
    /\ now' = now + 1
    /\ lastOp' = [kind |-> "Tick", call |-> 0, admitted |-> FALSE]
    /\ prev' = [cb |-> cb, now |-> now]
    /\ UNCHANGED <<cb, callPc, callResult, invoked, episodeAdmitted, streak,
                   handled, records>>
    /\ UNCHANGED otherThanBreaker

NextBreaker ==
    \/ \E c \in Calls : BreakerEnter(c)
    \/ \E c \in Calls : BreakerSuccess(c)
    \/ \E c \in Calls, e \in BreakerHandlerErrors : BreakerFailure(c, e)
    \/ Tick

(***************************************************************************)
(* Retry                                                                   *)
(***************************************************************************)
\* a duration is a signed integer of DurationBits bits
WrapDuration(x) ==
    LET m == x % (2 ^ DurationBits)
    IN IF m >= 2 ^ (DurationBits - 1) THEN m - 2 ^ DurationBits ELSE m

\* 1 << uint(attempt)
ShiftOne(n) == IF n < 0 \/ n >= DurationBits THEN 0 ELSE WrapDuration(2 ^ n)

\* ExponentialBackoff.Next(attempt)
Next(b, n) ==
    LET duration == WrapDuration(b.Base * ShiftOne(n))
    IN IF duration > b.Max THEN b.Max ELSE duration

\* isRetryable retrying the errors it does not know
isRetryable_unknownRetried(e) ==
    IF e = NilError THEN FALSE
    ELSE IF e.type = "llmx" THEN e.retryable
    ELSE TRUE

\* isRetryable(err)
isRetryable(e) ==
    IF e = NilError THEN FALSE
    ELSE IF e.type = "llmx" THEN e.retryable
    ELSE FALSE

\* the loop stopping one attempt early
LoopCondition_strict(n, m) == n < m

\* attempt <= maxRetries, the condition of the loop
LoopCondition(n, m) == n <= m

\* attempt < maxRetries, the condition of the sleep
SleepCondition(n, m) == n < m

\* the delay taken for the next attempt index
SleepDelay_shifted(b, n) == Next(b, n + 1)

\* delay := backoff.Next(attempt)
SleepDelay(b, n) == Next(b, n)

\* ctx.Err()
ContextCanceled == GenericError("context canceled")

\* the cancelled sleep returning the error of the failed attempt
CancelledReturn_lastError(e) == [resp |-> "", err |-> e]

\* case <-ctx.Done(): return nil, ctx.Err()
CancelledReturn(e) == [resp |-> "", err |-> ContextCanceled]

\* what the wrapped handler can return
RetryHandlerResults ==
    { [resp |-> "success", err |-> NilError],
      [resp |-> "", err |-> NewRateLimitError("rate limited", 0)],
      [resp |-> "", err |-> NewInternalError("boom", "")],
      [resp |-> "", err |-> NewAuthenticationError("bad key")],
      [resp |-> "", err |-> GenericError("non-retryable error")] }

NoResult == [resp |-> "", err |-> NilError]

RetryStart(m, b) ==
    /\ maxRetries = m
    /\ backoff = b
    /\ rpc = "loop"
    /\ attempt = 0
    /\ err = NilError
    /\ delay = 0
    /\ rwake = "none"
    /\ rctxDone = FALSE
    /\ result = NoResult
    /\ exit = "none"
    /\ invocations = 0
    /\ outcomes = <<>>
    /\ sleeps = <<>>
    /\ cancelledInSleep = FALSE
    /\ invAtCancel = 0

RetryIdle == RetryStart(0, [Base |-> 1, Max |-> 1])

\* a call of the handler that Retry(maxRetries, backoff) returns
InitRetry ==
    \E m \in 0..MaxRetries, base \in 0..MaxBase, max \in 1..MaxBackoff :
        RetryStart(m, [Base |-> base, Max |-> max])

\* the head of the for loop; after the loop: return nil, err
RetryLoop ==
    /\ rpc = "loop"
    /\ IF LoopCondition(attempt, maxRetries)
       THEN /\ rpc' = "next"
            /\ UNCHANGED <<result, exit>>
       ELSE /\ rpc' = "done"
            /\ result' = [resp |-> "", err |-> err]
            /\ exit' = "exhausted"
    /\ UNCHANGED <<maxRetries, backoff, attempt, err, delay, rwake, rctxDone,
                   invocations, outcomes, sleeps, cancelledInSleep, invAtCancel>>
    /\ UNCHANGED otherThanRetry

\* resp, err = next(ctx, req) returns r, and the body of the loop up to the select
RetryNext(r) ==
    /\ rpc = "next"
    /\ invocations' = invocations + 1
    /\ outcomes' = Append(outcomes, r)
    /\ err' = r.err
    /\ IF r.err = NilError
       THEN /\ rpc' = "done"
            /\ result' = [resp |-> r.resp, err |-> NilError]
            /\ exit' = "success"
            /\ UNCHANGED <<attempt, delay, sleeps>>
       ELSE IF ~isRetryable(r.err)
       THEN /\ rpc' = "done"
            /\ result' = [resp |-> "", err |-> r.err]
            /\ exit' = "not retryable"
            /\ UNCHANGED <<attempt, delay, sleeps>>
       ELSE IF SleepCondition(attempt, maxRetries)
       THEN /\ rpc' = "select"
            /\ delay' = SleepDelay(backoff, attempt)
            /\ sleeps' = Append(sleeps, delay')
            /\ UNCHANGED <<attempt, result, exit>>
       ELSE /\ rpc' = "loop"
            /\ attempt' = attempt + 1
            /\ UNCHANGED <<delay, sleeps, result, exit>>
    /\ UNCHANGED <<maxRetries, backoff, rwake, rctxDone, cancelledInSleep,
                   invAtCancel>>
    /\ UNCHANGED otherThanRetry

\* the select is entered with a case that can proceed: the context is done,
\* or the timer of a delay that is not positive has fired already
RetrySelect ==
    /\ rpc = "select"
    /\ \/ /\ rctxDone
          /\ rpc' = "done"
          /\ result' = CancelledReturn(err)
          /\ exit' = "cancelled"
          /\ UNCHANGED attempt
       \/ /\ delay <= 0
          /\ rpc' = "loop"
          /\ attempt' = attempt + 1
          /\ UNCHANGED <<result, exit>>
    /\ UNCHANGED <<maxRetries, backoff, err, delay, rwake, rctxDone,
                   invocations, outcomes, sleeps, cancelledInSleep, invAtCancel>>
    /\ UNCHANGED otherThanRetry

\* no case can proceed: the call sleeps
RetryPark ==
    /\ rpc = "select"
    /\ ~rctxDone
    /\ rpc' = "parked"
    /\ UNCHANGED <<maxRetries, backoff, attempt, err, delay, rwake, rctxDone,
                   result, exit, invocations, outcomes, sleeps,
                   cancelledInSleep, invAtCancel>>
    /\ UNCHANGED otherThanRetry

\* time.After(delay) fires and wakes the sleeping call
RetryTimer ==
    /\ rpc = "parked"
    /\ rpc' = "woken"
    /\ rwake' = "timer"
    /\ UNCHANGED <<maxRetries, backoff, attempt, err, delay, rctxDone, result,
                   exit, invocations, outcomes, sleeps, cancelledInSleep,
                   invAtCancel>>
    /\ UNCHANGED otherThanRetry

\* the context of the call is cancelled; a sleeping call is woken by it
RetryCancel ==
    /\ ~rctxDone
    /\ rctxDone' = TRUE
    /\ IF rpc = "parked"
       THEN /\ rpc' = "woken"
            /\ rwake' = "ctx"
            /\ cancelledInSleep' = TRUE
       ELSE UNCHANGED <<rpc, rwake, cancelledInSleep>>
    /\ invAtCancel' = invocations
    /\ UNCHANGED <<maxRetries, backoff, attempt, err, delay, result, exit,
                   invocations, outcomes, sleeps>>
    /\ UNCHANGED otherThanRetry

\* the woken call runs the case that woke it
RetryResume ==
    /\ rpc = "woken"
    /\ IF rwake = "ctx"
       THEN /\ rpc' = "done"
            /\ result' = CancelledReturn(err)
            /\ exit' = "cancelled"
            /\ UNCHANGED attempt
       ELSE /\ rpc' = "loop"
            /\ attempt' = attempt + 1
            /\ UNCHANGED <<result, exit>>
    /\ rwake' = "none"
    /\ UNCHANGED <<maxRetries, backoff, err, delay, rctxDone, invocations,
                   outcomes, sleeps, cancelledInSleep, invAtCancel>>
    /\ UNCHANGED otherThanRetry

NextRetry ==
    \/ RetryLoop
    \/ \E r \in RetryHandlerResults : RetryNext(r)
    \/ RetrySelect
    \/ RetryPark
    \/ RetryTimer
    \/ RetryCancel
    \/ RetryResume

(***************************************************************************)
(* Rate limiting (ratelimit.go) and the per-model registries               *)
(* (ratelimit.go, middleware.go)                                           *)
(***************************************************************************)
\* the values of req.Model
Models == {"gpt-4", "claude-3"}

\* the goroutines that call one middleware concurrently
Callers == {"c1", "c2"}

\* the middleware constructors of this component
LimitKinds == {"RateLimit", "RateLimitPerModel", "CircuitBreakerPerModel"}

\* NewSlidingWindowLimiter(maxRequests, window)
NewSlidingWindowLimiter(maxRequests, window) ==
    [ requests |-> <<>>, maxRequests |-> maxRequests, windowPeriod |-> window ]

\* t.After(cutoff)
After(t, cutoff) == t > cutoff

\* an Allow that never forgets a request
ValidRequests_all(requests, cutoff) == requests

\* the loop of Allow that keeps the requests after the cutoff
ValidRequests(requests, cutoff) ==
    SelectSeq(requests, LAMBDA t : After(t, cutoff))

\* the limit test refusing one request late
LimitReached_late(s, valid) == Len(valid) > s.maxRequests

\* len(s.requests) >= s.maxRequests
LimitReached(s, valid) == Len(valid) >= s.maxRequests

\* SlidingWindowLimiter.Allow at time t, under s.mu: the limiter afterwards
\* and the answer
SlidingWindowLimiter_Allow(s, t) ==
    LET valid == ValidRequests(s.requests, t - s.windowPeriod) IN
    IF LimitReached(s, valid)
    THEN [s |-> [s EXCEPT !.requests = valid], ok |-> FALSE]
    ELSE [s |-> [s EXCEPT !.requests = Append(valid, t)], ok |-> TRUE]

\* the error of a refused Allow in RateLimit and RateLimitPerModel
AllowRefused ==
    NewRateLimitError("rate limit exceeded", RetryAfterSeconds)

\* a failed Wait suggesting the delay of a refused Allow
WaitFailed_suggestsDelay(e) ==
    NewRateLimitError("rate limit wait failed: " \o e.msg, RetryAfterSeconds)

\* the error of a failed Wait in RateLimit and RateLimitPerModel
WaitFailed(e) ==
    NewRateLimitError("rate limit wait failed: " \o e.msg, 0)

\* the creation under the write lock without the second look
DoubleCheck_skipped(model) == FALSE

\* the second look at the map, under the write lock
DoubleCheck(model) == registry[model] # 0

\* what the wrapped handler may return
LimitHandlerResults ==
    { [resp |-> "success", err |-> NilError],
      [resp |-> "", err |-> GenericError("provider error")] }

\* the limiter handed to RateLimit, and what the factory of a per-model
\* registry builds for every model
LimitFactories(kind) ==
    CASE kind = "RateLimit" ->
           { NewSlidingWindowLimiter(n, w) : n \in 1..MaxRequests, w \in 0..MaxWindow }
      [] kind = "RateLimitPerModel" ->
           { NewSlidingWindowLimiter(1, 1) }
      [] OTHER ->
           { NewCircuitBreaker(f, MaxOpenTimeout, 1, 1) : f \in 1..MaxThreshold }

\* the middleware of the given kind before its first call
LimitStart(kind, wait, factory) ==
    /\ lkind = kind
    /\ lwait = wait
    /\ lfactory = factory
    /\ registry = [m \in Models |-> 0]
    /\ instances = IF kind = "RateLimit" THEN <<factory>> ELSE <<>>
    /\ lclock = 0
    /\ lpc = [c \in Callers |-> "idle"]
    /\ lreq = [c \in Callers |-> "gpt-4"]
    /\ lim = [c \in Callers |-> 0]
    /\ lticker = [c \in Callers |-> 0]
    /\ lctxDone = [c \in Callers |-> FALSE]
    /\ lresult = [c \in Callers |-> NoResult]
    /\ lhandlerCalls = [c \in Callers |-> 0]
    /\ ladmitted = [c \in Callers |-> FALSE]
    /\ lcalls = 0
    /\ factoryCalls = <<>>
    /\ admissions = <<>>
    /\ windowed = TRUE
    /\ pruned = TRUE
    /\ lgot = [c \in Callers |-> 0]
    /\ touched = {}

LimitIdle == LimitStart("RateLimit", FALSE, NewSlidingWindowLimiter(1, 1))

InitLimit ==
    \E kind \in LimitKinds, wait \in BOOLEAN :
        /\ (kind = "CircuitBreakerPerModel" => ~wait)
        /\ \E factory \in LimitFactories(kind) : LimitStart(kind, wait, factory)

\* a caller enters the middleware with a request for the model
LimitCall(c, model) ==
    /\ lpc[c] \in {"idle", "done"}
    /\ lcalls < MaxLimitCalls
    /\ lcalls' = lcalls + 1
    /\ lreq' = [lreq EXCEPT ![c] = model]
    /\ lim' = [lim EXCEPT ![c] = IF lkind = "RateLimit" THEN 1 ELSE 0]
    /\ lpc' = [lpc EXCEPT ![c] = IF lkind = "RateLimit" THEN "limit" ELSE "get"]
    /\ lctxDone' = [lctxDone EXCEPT ![c] = FALSE]
    /\ lresult' = [lresult EXCEPT ![c] = NoResult]
    /\ lhandlerCalls' = [lhandlerCalls EXCEPT ![c] = 0]
    /\ ladmitted' = [ladmitted EXCEPT ![c] = FALSE]
    /\ lgot' = [lgot EXCEPT ![c] = 0]
    /\ UNCHANGED <<lkind, lwait, lfactory, registry, instances, lclock, lticker,
                   factoryCalls, admissions, windowed, pruned, touched>>
    /\ UNCHANGED otherThanLimit

\* where a caller goes once it holds its limiter or breaker
Obtained == IF lkind = "CircuitBreakerPerModel" THEN "allow" ELSE "limit"

\* the first look at the map, between RLock and RUnlock
Lookup(c) ==
    /\ lpc[c] = "get"
    /\ IF registry[lreq[c]] # 0
       THEN /\ lim' = [lim EXCEPT ![c] = registry[lreq[c]]]
            /\ lpc' = [lpc EXCEPT ![c] = Obtained]
       ELSE /\ lpc' = [lpc EXCEPT ![c] = "create"]
            /\ UNCHANGED lim
    /\ UNCHANGED <<lkind, lwait, lfactory, registry, instances, lclock, lreq,
                   lticker, lctxDone, lresult, lhandlerCalls, ladmitted, lcalls,
                   factoryCalls, admissions, windowed, pruned, lgot, touched>>
    /\ UNCHANGED otherThanLimit

\* the part between Lock and the deferred Unlock: the second look, then the
\* factory and the store
Create(c) ==
    /\ lpc[c] = "create"
    /\ IF DoubleCheck(lreq[c])
       THEN /\ lim' = [lim EXCEPT ![c] = registry[lreq[c]]]
            /\ UNCHANGED <<registry, instances, factoryCalls>>
       ELSE /\ instances' = Append(instances, lfactory)
            /\ registry' = [registry EXCEPT ![lreq[c]] = Len(instances) + 1]
            /\ factoryCalls' = Append(factoryCalls, lreq[c])
            /\ lim' = [lim EXCEPT ![c] = Len(instances) + 1]
    /\ lpc' = [lpc EXCEPT ![c] = Obtained]
    /\ UNCHANGED <<lkind, lwait, lfactory, lclock, lreq, lticker, lctxDone,
                   lresult, lhandlerCalls, ladmitted, lcalls, admissions,
                   windowed, pruned, lgot, touched>>
    /\ UNCHANGED otherThanLimit

\* ModelRateLimiter.GetLimiter up to RUnlock
GetLimiter(c) == lkind = "RateLimitPerModel" /\ Lookup(c)

\* ModelRateLimiter.GetLimiter from Lock on
GetLimiterCreate(c) == lkind = "RateLimitPerModel" /\ Create(c)

\* PerModelCircuitBreaker.GetBreaker up to RUnlock
GetBreaker(c) == lkind = "CircuitBreakerPerModel" /\ Lookup(c)

\* PerModelCircuitBreaker.GetBreaker from Lock on
GetBreakerCreate(c) == lkind = "CircuitBreakerPerModel" /\ Create(c)

\* the admissions of the instance after the instant u, in the order made
AdmittedAfter(id, u) ==
    SelectSeq(admissions, LAMBDA a : a.id = id /\ a.t > u)

\* the timestamps of requests that are not strictly older than the cutoff
NotOlder(requests, cutoff) == SelectSeq(requests, LAMBDA t : t >= cutoff)

\* one call of Allow on the caller's limiter: the limiter changes, the
\* admission is recorded
CallAllow(c, ok) ==
    LET s == instances[lim[c]]
        a == SlidingWindowLimiter_Allow(s, lclock) IN
    /\ ok = a.ok
    /\ instances' = [instances EXCEPT ![lim[c]] = a.s]
    /\ admissions' = IF a.ok THEN Append(admissions, [id |-> lim[c], t |-> lclock])
                     ELSE admissions
    /\ windowed' = (windowed /\
           (a.ok <=> Len(AdmittedAfter(lim[c], lclock - s.windowPeriod)) < s.maxRequests))
    /\ pruned' = (pruned /\
           LET kept == NotOlder(s.requests, lclock - s.windowPeriod) IN
           /\ a.s.requests = IF a.ok THEN Append(kept, lclock) ELSE kept
           /\ a.ok <=> Len(kept) < s.maxRequests
           /\ Len(a.s.requests) <= s.maxRequests)
    /\ touched' = IF a.s # s THEN touched \cup {<<lim[c], lreq[c]>>} ELSE touched
    /\ ladmitted' = [ladmitted EXCEPT ![c] = a.ok]
    /\ lgot' = [lgot EXCEPT ![c] = IF a.ok THEN @ + 1 ELSE @]

\* the non-blocking branch of RateLimit / RateLimitPerModel
LimitAllow(c) ==
    /\ lpc[c] = "limit"
    /\ ~lwait
    /\ \E ok \in BOOLEAN :
        /\ CallAllow(c, ok)
        /\ IF ok
           THEN /\ lpc' = [lpc EXCEPT ![c] = "next"]
                /\ UNCHANGED lresult
           ELSE /\ lpc' = [lpc EXCEPT ![c] = "done"]
                /\ lresult' = [lresult EXCEPT ![c] = [resp |-> "", err |-> AllowRefused]]
    /\ UNCHANGED <<lkind, lwait, lfactory, registry, lclock, lreq, lim, lticker,
                   lctxDone, lhandlerCalls, lcalls, factoryCalls>>
    /\ UNCHANGED otherThanLimit

\* SlidingWindowLimiter.Wait: the ticker is created
WaitEnter(c) ==
    /\ lpc[c] = "limit"
    /\ lwait
    /\ lticker' = [lticker EXCEPT ![c] = lclock]
    /\ lpc' = [lpc EXCEPT ![c] = "loop"]
    /\ UNCHANGED <<lkind, lwait, lfactory, registry, instances, lclock, lreq,
                   lim, lctxDone, lresult, lhandlerCalls, ladmitted, lcalls,
                   factoryCalls, admissions, windowed, pruned, lgot, touched>>
    /\ UNCHANGED otherThanLimit

\* SlidingWindowLimiter.Wait: s.Allow() at the top of the loop
WaitAllow(c) ==
    /\ lpc[c] = "loop"
    /\ \E ok \in BOOLEAN :
        /\ CallAllow(c, ok)
        /\ lpc' = [lpc EXCEPT ![c] = IF ok THEN "next" ELSE "select"]
        \* the deferred ticker.Stop()
        /\ lticker' = [lticker EXCEPT ![c] = IF ok THEN 0 ELSE @]
    /\ UNCHANGED <<lkind, lwait, lfactory, registry, lclock, lreq, lim,
                   lctxDone, lresult, lhandlerCalls, lcalls, factoryCalls>>
    /\ UNCHANGED otherThanLimit

\* SlidingWindowLimiter.Wait: case <-ticker.C, a tick since the last one taken
WaitTicker(c) ==
    /\ lpc[c] = "select"
    /\ lclock > lticker[c]
    /\ lticker' = [lticker EXCEPT ![c] = lclock]
    /\ lpc' = [lpc EXCEPT ![c] = "loop"]
    /\ UNCHANGED <<lkind, lwait, lfactory, registry, instances, lclock, lreq,
                   lim, lctxDone, lresult, lhandlerCalls, ladmitted, lcalls,
                   factoryCalls, admissions, windowed, pruned, lgot, touched>>
    /\ UNCHANGED otherThanLimit

\* SlidingWindowLimiter.Wait: case <-ctx.Done(), and the middleware's error
WaitCancelled(c) ==
    /\ lpc[c] = "select"
    /\ lctxDone[c]
    /\ lresult' = [lresult EXCEPT ![c] = [resp |-> "", err |-> WaitFailed(ContextCanceled)]]
    /\ lpc' = [lpc EXCEPT ![c] = "done"]
    \* the deferred ticker.Stop()
    /\ lticker' = [lticker EXCEPT ![c] = 0]
    /\ UNCHANGED <<lkind, lwait, lfactory, registry, instances, lclock, lreq,
                   lim, lctxDone, lhandlerCalls, ladmitted, lcalls,
                   factoryCalls, admissions, windowed, pruned, lgot, touched>>
    /\ UNCHANGED otherThanLimit

\* CircuitBreakerPerModel: breaker.Allow()
PerModelAllow(c) ==
    LET b == instances[lim[c]]
        a == Allow(b, lclock) IN
    /\ lpc[c] = "allow"
    /\ instances' = [instances EXCEPT ![lim[c]] = a.cb]
    /\ touched' = IF a.cb # b THEN touched \cup {<<lim[c], lreq[c]>>} ELSE touched
    /\ IF a.err = ""
       THEN /\ lpc' = [lpc EXCEPT ![c] = "next"]
            /\ ladmitted' = [ladmitted EXCEPT ![c] = TRUE]
            /\ UNCHANGED lresult
       ELSE /\ lpc' = [lpc EXCEPT ![c] = "done"]
            /\ lresult' = [lresult EXCEPT ![c] =
                   [resp |-> "", err |-> NewInternalError("circuit breaker: " \o a.err, "")]]
            /\ UNCHANGED ladmitted
    /\ UNCHANGED <<lkind, lwait, lfactory, registry, lclock, lreq, lim, lticker,
                   lctxDone, lhandlerCalls, lcalls, factoryCalls, admissions,
                   windowed, pruned, lgot>>
    /\ UNCHANGED otherThanLimit

\* next(ctx, req): the wrapped handler runs and returns r
LimitNext(c, r) ==
    /\ lpc[c] = "next"
    /\ lhandlerCalls' = [lhandlerCalls EXCEPT ![c] = @ + 1]
    /\ lresult' = [lresult EXCEPT ![c] = r]
    /\ lpc' = [lpc EXCEPT ![c] = IF lkind = "CircuitBreakerPerModel" THEN "record" ELSE "done"]
    /\ UNCHANGED <<lkind, lwait, lfactory, registry, instances, lclock, lreq,
                   lim, lticker, lctxDone, ladmitted, lcalls, factoryCalls,
                   admissions, windowed, pruned, lgot, touched>>
    /\ UNCHANGED otherThanLimit

\* CircuitBreakerPerModel: breaker.RecordFailure() or breaker.RecordSuccess()
PerModelRecord(c) ==
    LET b == instances[lim[c]]
        after == IF RecordsFailure(lresult[c].err) THEN RecordFailure(b, lclock)
                 ELSE RecordSuccess(b) IN
    /\ lpc[c] = "record"
    /\ instances' = [instances EXCEPT ![lim[c]] = after]
    /\ touched' = IF after # b THEN touched \cup {<<lim[c], lreq[c]>>} ELSE touched
    /\ lpc' = [lpc EXCEPT ![c] = "done"]
    /\ UNCHANGED <<lkind, lwait, lfactory, registry, lclock, lreq, lim, lticker,
                   lctxDone, lresult, lhandlerCalls, ladmitted, lcalls,
                   factoryCalls, admissions, windowed, pruned, lgot>>
    /\ UNCHANGED otherThanLimit

\* the caller's context is cancelled while its call is in the select of
\* Wait, the only place of the middleware that looks at the context
LimitCancel(c) ==
    /\ lpc[c] = "select"
    /\ ~lctxDone[c]
    /\ lctxDone' = [lctxDone EXCEPT ![c] = TRUE]
    /\ UNCHANGED <<lkind, lwait, lfactory, registry, instances, lclock, lpc,
                   lreq, lim, lticker, lresult, lhandlerCalls, ladmitted,
                   lcalls,
                   factoryCalls, admissions, windowed, pruned, lgot, touched>>
    /\ UNCHANGED otherThanLimit

\* one ticker period passes
LimitTick ==
    /\ lclock < MaxTime
    /\ lclock' = lclock + 1
    /\ UNCHANGED <<lkind, lwait, lfactory, registry, instances, lpc, lreq, lim,
                   lticker, lctxDone, lresult, lhandlerCalls, ladmitted, lcalls,
                   factoryCalls, admissions, windowed, pruned, lgot, touched>>
    /\ UNCHANGED otherThanLimit

NextLimit ==
    \/ \E c \in Callers, model \in Models : LimitCall(c, model)
    \/ \E c \in Callers : GetLimiter(c)
    \/ \E c \in Callers : GetLimiterCreate(c)
    \/ \E c \in Callers : GetBreaker(c)
    \/ \E c \in Callers : GetBreakerCreate(c)
    \/ \E c \in Callers : LimitAllow(c)
    \/ \E c \in Callers : WaitEnter(c)
    \/ \E c \in Callers : WaitAllow(c)
    \/ \E c \in Callers : WaitTicker(c)
    \/ \E c \in Callers : WaitCancelled(c)
    \/ \E c \in Callers : PerModelAllow(c)
    \/ \E c \in Callers, r \in LimitHandlerResults : LimitNext(c, r)
    \/ \E c \in Callers : PerModelRecord(c)
    \/ \E c \in Callers : LimitCancel(c)
    \/ LimitTick

(***************************************************************************)
(* Token bucket (ratelimit.go; the bucket itself is rate.Limiter of        *)
(* golang.org/x/time/rate, modelled from the specification)                *)
(***************************************************************************)
\* one whole token, in the unit the bucket counts in: a bucket of rate R gains
\* R units per clock tick, a tick being 1/TicksPerSecond of a second
WholeToken == TicksPerSecond

Min(a, b) == IF a <= b THEN a ELSE b

\* NewTokenBucketLimiter(rps, burst): the bucket starts full
NewTokenBucketLimiter(rps, burst) ==
    [ limit |-> rps, burst |-> burst, tokens |-> burst * WholeToken, last |-> 0 ]

\* the refill without the cap at the capacity
Advance_uncapped(b, t) == b.tokens + (t - b.last) * b.limit

\* the tokens at time t: what the bucket held at b.last plus the refill since
\* then, never more than the capacity
Advance(b, t) == Min(b.burst * WholeToken, b.tokens + (t - b.last) * b.limit)

\* TokenBucketLimiter.Allow at time t: the bucket afterwards and the answer
TokenBucketLimiter_Allow(b, t) ==
    LET tokens == Advance(b, t) IN
    IF tokens >= WholeToken
    THEN [b |-> [b EXCEPT !.tokens = tokens - WholeToken, !.last = t], ok |-> TRUE]
    ELSE [b |-> b, ok |-> FALSE]

BucketStart(rps, burst) ==
    /\ bucket = NewTokenBucketLimiter(rps, burst)
    /\ bclock = 0
    /\ allows = <<>>

BucketIdle == BucketStart(1, 1)

InitBucket ==
    \E rps \in 0..MaxRate, burst \in 0..MaxBurst : BucketStart(rps, burst)

\* one call of Allow
BucketAllow ==
    LET a == TokenBucketLimiter_Allow(bucket, bclock) IN
    /\ Len(allows) < MaxBucketCalls
    /\ bucket' = a.b
    /\ allows' = Append(allows, [t |-> bclock, ok |-> a.ok])
    /\ UNCHANGED bclock
    /\ UNCHANGED otherThanBucket

\* one clock tick passes
BucketTick ==
    /\ bclock < MaxTime
    /\ bclock' = bclock + 1
    /\ UNCHANGED <<bucket, allows>>
    /\ UNCHANGED otherThanBucket

NextBucket ==
    \/ BucketAllow
    \/ BucketTick

(***************************************************************************)
(* Timeout middlewares (circuitbreaker_test.go, second part)               *)
(***************************************************************************)
TimeoutKinds == {"Timeout", "TimeoutPerModel", "AdaptiveTimeout"}

DeadlineExceeded == "context deadline exceeded"
Canceled == "context canceled"

\* the requests: req.Model, len(req.Messages), len(req.Tools)
TimeoutRequests ==
    [model : Models, messages : 0..MaxItems, tools : 0..MaxItems]

\* the configurations of the three constructors
TimeoutConfigs(kind) ==
    CASE kind = "Timeout" ->
           [timeout : 0..MaxTimeout]
      [] kind = "TimeoutPerModel" ->
           [timeouts : [{"gpt-4"} -> 0..MaxTimeout], defaultTimeout : 0..MaxTimeout]
      [] OTHER ->
           [baseTimeout : {0}, perMessage : {1}, perTool : {1},
            maxTimeout : 1..MaxTimeout]

\* a calculation that leaves out the cap
CalculateTimeout_uncapped(at, req) ==
    WrapDuration(WrapDuration(at.baseTimeout +
                              WrapDuration(req.messages * at.perMessage)) +
                 WrapDuration(req.tools * at.perTool))

\* AdaptiveTimeout.CalculateTimeout(req)
CalculateTimeout(at, req) ==
    LET withMessages == WrapDuration(at.baseTimeout +
                                     WrapDuration(req.messages * at.perMessage))
        withTools == WrapDuration(withMessages +
                                  WrapDuration(req.tools * at.perTool))
    IN IF withTools > at.maxTimeout THEN at.maxTimeout ELSE withTools

\* the timeout the middleware of the kind computes for the request
TimeoutFor(kind, conf, req) ==
    CASE kind = "Timeout" -> conf.timeout
      [] kind = "TimeoutPerModel" ->
           IF req.model \in DOMAIN conf.timeouts
           THEN conf.timeouts[req.model]
           ELSE conf.defaultTimeout
      [] OTHER -> CalculateTimeout(conf, req)

\* an inbound context: whether it has a deadline, and the deadline
InboundContexts ==
    {[ok |-> FALSE, at |-> 0]} \cup [ok : {TRUE}, at : 0..MaxTime]

\* a derived context whose deadline is entry + timeout whatever the parent's
WithTimeout_replacesDeadline(parent, t, timeout) == t + timeout

\* context.WithTimeout(parent, timeout) at time t: the deadline of the
\* derived context, the parent's when that is earlier
WithTimeout(parent, t, timeout) ==
    IF parent.ok /\ parent.at < t + timeout THEN parent.at ELSE t + timeout

\* the timeout error without its cause
TimeoutError_noCause(cause) == NewInternalError("request timeout", "")

\* llmx.NewInternalError("request timeout after ...", ctx.Err())
TimeoutError(cause) == NewInternalError("request timeout", cause)

\* what the wrapped handler may return: a response, an error of its own, or
\* the error of its context
TimeoutHandlerResults ==
    { [resp |-> "test", err |-> NilError],
      [resp |-> "", err |-> GenericError("provider error")],
      [resp |-> "", err |-> GenericError(DeadlineExceeded)],
      [resp |-> "", err |-> GenericError(Canceled)] }

\* the handler returns the error of its context only when that is its error
Returnable(r) ==
    r.err.msg \in {DeadlineExceeded, Canceled} => r.err.msg = tctxErr

TimeoutStart(kind, conf) ==
    /\ tkind = kind
    /\ tconf = conf
    /\ treq = [model |-> "gpt-4", messages |-> 0, tools |-> 0]
    /\ tclock = 0
    /\ tinbound = [ok |-> FALSE, at |-> 0]
    /\ tinCancelled = FALSE
    /\ tentry = 0
    /\ ttimeout = 0
    /\ tdeadline = 0
    /\ tctxErr = ""
    /\ tpc = "idle"
    /\ hpc = "none"
    /\ resultChan = <<>>
    /\ tresult = NoResult
    /\ hreturned = NoResult

TimeoutIdle == TimeoutStart("Timeout", [timeout |-> 1])

InitTimeout ==
    \E kind \in TimeoutKinds : \E conf \in TimeoutConfigs(kind) :
        TimeoutStart(kind, conf)

\* the middleware is entered: the timeout is computed, the context derived,
\* the goroutine that runs the wrapped handler started (the deadline lies
\* within the modelled time)
TimeoutCall(req, inbound) ==
    LET timeout == TimeoutFor(tkind, tconf, req) IN
    /\ tpc = "idle"
    /\ inbound.ok => inbound.at >= tclock
    /\ WithTimeout(inbound, tclock, timeout) <= MaxTime
    /\ treq' = req
    /\ tinbound' = inbound
    /\ tentry' = tclock
    /\ ttimeout' = timeout
    /\ tdeadline' = WithTimeout(inbound, tclock, timeout)
    /\ tpc' = "select"
    /\ hpc' = "running"
    /\ UNCHANGED <<tkind, tconf, tclock, tinCancelled, tctxErr, resultChan,
                   tresult, hreturned>>
    /\ UNCHANGED otherThanTimeout

\* the timer of the derived context fires: the context is done
DeadlineFires ==
    /\ tpc = "select"
    /\ tctxErr = ""
    /\ tclock >= tdeadline
    /\ tctxErr' = DeadlineExceeded
    /\ UNCHANGED <<tkind, tconf, treq, tclock, tinbound, tinCancelled, tentry,
                   ttimeout, tdeadline, tpc, hpc, resultChan, tresult, hreturned>>
    /\ UNCHANGED otherThanTimeout

\* the caller cancels the inbound context: the derived context is done too
CancelInbound ==
    /\ tpc = "select"
    /\ ~tinCancelled
    /\ tinCancelled' = TRUE
    /\ tctxErr' = IF tctxErr = "" THEN Canceled ELSE tctxErr
    /\ UNCHANGED <<tkind, tconf, treq, tclock, tinbound, tentry, ttimeout,
                   tdeadline, tpc, hpc, resultChan, tresult, hreturned>>
    /\ UNCHANGED otherThanTimeout

\* resultChan := make(chan result, 1)
ResultChanCap == 1

\* a send on an unbuffered channel nobody receives from
SendReady_unbuffered(ch) == Len(ch) < ResultChanCap - 1

\* a send on the buffered channel proceeds while the buffer has room
SendReady(ch) == Len(ch) < ResultChanCap

\* the goroutine: next(ctx, req) returns r
HandlerReturns(r) ==
    /\ hpc = "running"
    /\ Returnable(r)
    /\ hreturned' = r
    /\ hpc' = "sending"
    /\ UNCHANGED <<tkind, tconf, treq, tclock, tinbound, tinCancelled, tentry,
                   ttimeout, tdeadline, tctxErr, tpc, resultChan, tresult>>
    /\ UNCHANGED otherThanTimeout

\* the goroutine: resultChan <- result{resp, err}, after which it ends
ResultSend ==
    /\ hpc = "sending"
    /\ SendReady(resultChan)
    /\ resultChan' = Append(resultChan, hreturned)
    /\ hpc' = "delivered"
    /\ UNCHANGED <<tkind, tconf, treq, tclock, tinbound, tinCancelled, tentry,
                   ttimeout, tdeadline, tctxErr, tpc, tresult, hreturned>>
    /\ UNCHANGED otherThanTimeout

\* case res := <-resultChan, then the deferred cancel()
TimeoutResult ==
    /\ tpc = "select"
    /\ resultChan # <<>>
    /\ tresult' = Head(resultChan)
    /\ resultChan' = Tail(resultChan)
    /\ tctxErr' = IF tctxErr = "" THEN Canceled ELSE tctxErr
    /\ tpc' = "done"
    /\ UNCHANGED <<tkind, tconf, treq, tclock, tinbound, tinCancelled, tentry,
                   ttimeout, tdeadline, hpc, hreturned>>
    /\ UNCHANGED otherThanTimeout

\* case <-ctx.Done(), then the deferred cancel()
TimeoutExpired ==
    /\ tpc = "select"
    /\ tctxErr # ""
    /\ tresult' = [resp |-> "", err |-> TimeoutError(tctxErr)]
    /\ tpc' = "done"
    /\ UNCHANGED <<tkind, tconf, treq, tclock, tinbound, tinCancelled, tentry,
                   ttimeout, tdeadline, tctxErr, hpc, resultChan, hreturned>>
    /\ UNCHANGED otherThanTimeout

\* one clock tick passes (the clock is followed until the middleware returns)
TimeoutTick ==
    /\ tclock < MaxTime
    /\ tpc # "done"
    /\ tclock' = tclock + 1
    /\ UNCHANGED <<tkind, tconf, treq, tinbound, tinCancelled, tentry, ttimeout,
                   tdeadline, tctxErr, tpc, hpc, resultChan, tresult, hreturned>>
    /\ UNCHANGED otherThanTimeout

NextTimeout ==
    \/ \E req \in TimeoutRequests, inbound \in InboundContexts :
           TimeoutCall(req, inbound)
    \/ DeadlineFires
    \/ CancelInbound
    \/ \E r \in TimeoutHandlerResults : HandlerReturns(r)
    \/ ResultSend
    \/ TimeoutResult
    \/ TimeoutExpired
    \/ TimeoutTick

\* the scheduling of the middleware: time passes, a timer whose time has come
\* fires, and a select with a ready case takes one; nothing makes the wrapped
\* handler return
TimeoutFairness ==
    /\ WF_vars(TimeoutTick)
    /\ WF_vars(DeadlineFires)
    /\ WF_vars(TimeoutResult \/ TimeoutExpired)
    /\ WF_vars(ResultSend)

(***************************************************************************)
(* MemoryCache and CacheMiddleware (middleware.go, third part)             *)
(***************************************************************************)
\* the requests: Model, the text of the one message, the number of Tools
CacheRequests ==
    { [model |-> "test", text |-> "hi", tools |-> 0],
      [model |-> "test", text |-> "hi", tools |-> 1],
      [model |-> "test", text |-> "bye", tools |-> 1] }

\* json.Marshal(req): the fields in declaration order, Tools omitted when
\* empty; a Tool has a field of function type (Execute), which json.Marshal
\* refuses, and generateCacheKey drops the error and hashes the nil data
Marshal(req) ==
    IF req.tools > 0 THEN <<>>
    ELSE <<"model", req.model, "messages", req.text>>

\* sha256.Sum256(data), printed in hex: a digest that differs when the data do
Sum256(data) == <<"sha256", data>>

\* generateCacheKey(req)
generateCacheKey(req) == Sum256(Marshal(req))

CacheKeys == { generateCacheKey(req) : req \in CacheRequests }

\* the Content of the responses the wrapped handler may return
Contents == {"x", "y"}

\* what the wrapped handler may return
CacheHandlerResults ==
    { [resp |-> v, err |-> NilError] : v \in Contents }
    \cup { [resp |-> "", err |-> GenericError("provider error")] }

\* no entry under a key
NoItem == [present |-> FALSE, value |-> "", expiration |-> 0]

\* an expiry test that drops an entry at its expiration instant
Expired_early(item, t) == t >= item.expiration

\* now.After(item.expiration)
Expired(item, t) == t > item.expiration

\* MemoryCache.Get(key) at time t: the value and whether there is one
MemoryCache_Get(c, key, t) ==
    IF ~c[key].present THEN [value |-> "", ok |-> FALSE]
    ELSE IF Expired(c[key], t) THEN [value |-> "", ok |-> FALSE]
    ELSE [value |-> c[key].value, ok |-> TRUE]

\* MemoryCache.Set(key, value, ttl) at time t
MemoryCache_Set(c, key, value, ttl, t) ==
    [c EXCEPT ![key] = [present |-> TRUE, value |-> value, expiration |-> t + ttl]]

\* MemoryCache.Delete(key)
MemoryCache_Delete(c, key) == [c EXCEPT ![key] = NoItem]

\* a sweep that purges every entry
cleanup_all(c, t) == [k \in DOMAIN c |-> NoItem]

\* one round of MemoryCache.cleanup at time t
cleanup(c, t) ==
    [k \in DOMAIN c |-> IF c[k].present /\ Expired(c[k], t) THEN NoItem ELSE c[k]]

\* a middleware that stores whatever the handler returned
StoreResult_always(r) == TRUE

\* CacheMiddleware stores the result of the handler when err is nil
StoreResult(r) == r.err = NilError

NoWrite == [op |-> "none", value |-> "", at |-> 0, ttl |-> 0]
NoGet == [key |-> <<>>, value |-> "", ok |-> FALSE, at |-> 0, write |-> NoWrite]
NoSet == [set |-> FALSE, value |-> "", at |-> 0,
          req |-> [model |-> "", text |-> "", tools |-> 0]]

\* the cache in the given use: "middleware" behind CacheMiddleware(nil, ttl),
\* "direct" with Get, Set and Delete called on it
CacheStart(mode, ttl) ==
    /\ cmode = mode
    /\ cttl = ttl
    /\ items = [k \in CacheKeys |-> NoItem]
    /\ cclock = 0
    /\ cops = 0
    /\ cpc = [c \in Callers |-> "idle"]
    /\ creq = [c \in Callers |-> [model |-> "test", text |-> "hi", tools |-> 0]]
    /\ cresult = [c \in Callers |-> NoResult]
    /\ chandlerCalls = [c \in Callers |-> 0]
    /\ cprior = [c \in Callers |-> {}]
    /\ cfresh = [c \in Callers |-> NoSet]
    /\ cafterFail = [c \in Callers |-> FALSE]
    /\ returned = {}
    /\ lastSet = [k \in CacheKeys |-> NoSet]
    /\ failNext = [k \in CacheKeys |-> FALSE]
    /\ successes = {}
    /\ lastWrite = [k \in CacheKeys |-> NoWrite]
    /\ lastGet = NoGet

CacheIdle == CacheStart("middleware", 1)

InitCache ==
    \E mode \in {"middleware", "direct"}, ttl \in 0..MaxTTL :
        /\ (mode = "direct" => ttl = 0)
        /\ CacheStart(mode, ttl)

\* a call enters CacheMiddleware: the key is computed and looked up; on a
\* hit the call returns the cached response
CacheCall(c, req) ==
    LET key == generateCacheKey(req)
        got == MemoryCache_Get(items, key, cclock) IN
    /\ cmode = "middleware"
    /\ cpc[c] \in {"idle", "done"}
    /\ cops < MaxCacheCalls
    /\ cops' = cops + 1
    /\ creq' = [creq EXCEPT ![c] = req]
    /\ chandlerCalls' = [chandlerCalls EXCEPT ![c] = 0]
    /\ cprior' = [cprior EXCEPT ![c] =
           { x.content : x \in { y \in returned : y.key = key /\ cclock <= y.at + cttl } }]
    /\ cfresh' = [cfresh EXCEPT ![c] =
           IF lastSet[key].set /\ cclock <= lastSet[key].at + cttl
           THEN lastSet[key] ELSE NoSet]
    /\ cafterFail' = [cafterFail EXCEPT ![c] = failNext[key]]
    /\ failNext' = [failNext EXCEPT ![key] = FALSE]
    /\ IF got.ok
       THEN /\ cresult' = [cresult EXCEPT ![c] = [resp |-> got.value, err |-> NilError]]
            /\ cpc' = [cpc EXCEPT ![c] = "done"]
       ELSE /\ cresult' = [cresult EXCEPT ![c] = NoResult]
            /\ cpc' = [cpc EXCEPT ![c] = "next"]
    /\ UNCHANGED <<cmode, cttl, items, cclock, returned, lastSet, successes,
                   lastWrite, lastGet>>
    /\ UNCHANGED otherThanCache

\* what the middleware returns for the result r of the handler
Returned(r) == IF r.err # NilError THEN [resp |-> "", err |-> r.err] ELSE r

\* next(ctx, req) returns r; an error is returned to the caller as it is
CacheNext(c, r) ==
    LET key == generateCacheKey(creq[c]) IN
    /\ cpc[c] = "next"
    /\ chandlerCalls' = [chandlerCalls EXCEPT ![c] = @ + 1]
    /\ cresult' = [cresult EXCEPT ![c] = Returned(r)]
    /\ successes' = IF r.err = NilError THEN successes \cup {<<key, r.resp>>}
                    ELSE successes
    /\ IF StoreResult(r)
       THEN /\ cpc' = [cpc EXCEPT ![c] = "set"]
            /\ UNCHANGED failNext
       ELSE /\ cpc' = [cpc EXCEPT ![c] = "done"]
            /\ failNext' = [failNext EXCEPT ![key] = TRUE]
    /\ UNCHANGED <<cmode, cttl, items, cclock, cops, creq, cprior, cfresh,
                   cafterFail, returned, lastSet, lastWrite, lastGet>>
    /\ UNCHANGED otherThanCache

\* cache.Set(key, resp, ttl), and the call returns the response
CacheStore(c) ==
    LET key == generateCacheKey(creq[c]) IN
    /\ cpc[c] = "set"
    /\ items' = MemoryCache_Set(items, key, cresult[c].resp, cttl, cclock)
    /\ lastSet' = [lastSet EXCEPT ![key] =
                      [set |-> TRUE, value |-> cresult[c].resp, at |-> cclock,
                       req |-> creq[c]]]
    /\ returned' = returned \cup
                      {[key |-> key, content |-> cresult[c].resp, at |-> cclock]}
    /\ cpc' = [cpc EXCEPT ![c] = "done"]
    /\ UNCHANGED <<cmode, cttl, cclock, cops, creq, cresult, chandlerCalls,
                   cprior, cfresh, cafterFail, failNext, successes, lastWrite,
                   lastGet>>
    /\ UNCHANGED otherThanCache

\* Set called on the cache
DirectSet(key, value, ttl) ==
    /\ cmode = "direct"
    /\ cops < MaxDirectOps
    /\ cops' = cops + 1
    /\ items' = MemoryCache_Set(items, key, value, ttl, cclock)
    /\ lastWrite' = [lastWrite EXCEPT ![key] =
                        [op |-> "set", value |-> value, at |-> cclock, ttl |-> ttl]]
    /\ UNCHANGED <<cmode, cttl, cclock, cpc, creq, cresult, chandlerCalls,
                   cprior, cfresh, cafterFail, returned, lastSet, failNext,
                   successes, lastGet>>
    /\ UNCHANGED otherThanCache

\* Delete called on the cache
DirectDelete(key) ==
    /\ cmode = "direct"
    /\ cops < MaxDirectOps
    /\ cops' = cops + 1
    /\ items' = MemoryCache_Delete(items, key)
    /\ lastWrite' = [lastWrite EXCEPT ![key] =
                        [op |-> "delete", value |-> "", at |-> cclock, ttl |-> 0]]
    /\ UNCHANGED <<cmode, cttl, cclock, cpc, creq, cresult, chandlerCalls,
                   cprior, cfresh, cafterFail, returned, lastSet, failNext,
                   successes, lastGet>>
    /\ UNCHANGED otherThanCache

\* Get called on the cache
DirectGet(key) ==
    LET got == MemoryCache_Get(items, key, cclock) IN
    /\ cmode = "direct"
    /\ lastGet' = [key |-> key, value |-> got.value, ok |-> got.ok, at |-> cclock,
                    write |-> lastWrite[key]]
    /\ UNCHANGED <<cmode, cttl, items, cclock, cops, cpc, creq, cresult,
                   chandlerCalls, cprior, cfresh, cafterFail, returned, lastSet,
                   failNext, successes, lastWrite>>
    /\ UNCHANGED otherThanCache

\* the cleanup goroutine sweeps (its ticker fired)
CacheSweep ==
    /\ items' = cleanup(items, cclock)
    /\ items' # items
    /\ UNCHANGED <<cmode, cttl, cclock, cops, cpc, creq, cresult, chandlerCalls,
                   cprior, cfresh, cafterFail, returned, lastSet, failNext,
                   successes, lastWrite, lastGet>>
    /\ UNCHANGED otherThanCache

\* one clock tick passes (the record of the returned calls keeps those whose
\* ttl has not elapsed)
CacheTick ==
    /\ cclock < MaxCacheTime
    /\ cclock' = cclock + 1
    /\ returned' = { x \in returned : cclock' <= x.at + cttl }
    /\ UNCHANGED <<cmode, cttl, items, cops, cpc, creq, cresult, chandlerCalls,
                   cprior, cfresh, cafterFail, lastSet, failNext,
                   successes, lastWrite, lastGet>>
    /\ UNCHANGED otherThanCache

NextCache ==
    \/ \E c \in Callers, req \in CacheRequests : CacheCall(c, req)
    \/ \E c \in Callers, r \in CacheHandlerResults : CacheNext(c, r)
    \/ \E c \in Callers : CacheStore(c)
    \/ \E key \in CacheKeys, value \in Contents, ttl \in 0..MaxTTL :
           DirectSet(key, value, ttl)
    \/ \E key \in CacheKeys : DirectDelete(key)
    \/ \E key \in CacheKeys : DirectGet(key)
    \/ CacheSweep
    \/ CacheTick

(***************************************************************************)
(* AdaptiveTimeout.CalculateTimeout on its own (circuitbreaker_test.go)    *)
(***************************************************************************)
\* NewAdaptiveTimeout() with WithBaseTimeout, WithPerMessage, WithPerTool and
\* WithMaxTimeout
AdaptiveTimeouts ==
    [baseTimeout : 0..MaxPart, perMessage : 0..MaxPart, perTool : 0..MaxPart,
     maxTimeout : 0..MaxCap]

\* the requests: len(req.Messages), len(req.Tools)
AdaptiveRequests == [model : {"gpt-4"}, messages : 0..MaxCount, tools : 0..MaxCount]

AdaptiveStart(at) ==
    /\ acfg = at
    /\ areq = [model |-> "gpt-4", messages |-> 0, tools |-> 0]
    /\ acalls = 0
    /\ aout = 0

AdaptiveIdle ==
    AdaptiveStart([baseTimeout |-> 0, perMessage |-> 0, perTool |-> 0, maxTimeout |-> 0])

InitAdaptive == \E at \in AdaptiveTimeouts : AdaptiveStart(at)

\* at.CalculateTimeout(req) is called
Calculate(req) ==
    /\ acalls < 1
    /\ acalls' = acalls + 1
    /\ areq' = req
    /\ aout' = CalculateTimeout(acfg, req)
    /\ UNCHANGED acfg
    /\ UNCHANGED otherThanAdaptive

NextAdaptive == \E req \in AdaptiveRequests : Calculate(req)

(***************************************************************************)
(* Client.Close, checkClosed and IsClosed (client.go)                      *)
(***************************************************************************)
\* fmt.Errorf("client is closed")
ClientClosedError == GenericError("client is closed")

\* NewInvalidRequestError of validateRequest
InvalidRequestError ==
    [type |-> "llmx", code |-> "invalid_request", retryable |-> FALSE,
     msg |-> "request is nil", cause |-> ""]

\* a check that lets every call through
checkClosed_open(closed) == NilError

\* Client.checkClosed, under the read lock
checkClosed(closed) == IF closed THEN ClientClosedError ELSE NilError

\* what the handler or the provider may return to Chat and StreamChat
LifeProviderResults == { NilError, GenericError("provider error") }

NoSeen == [called |-> FALSE, value |-> FALSE, before |-> FALSE, after |-> FALSE]

\* NewClient, with or without a Use after it
LifeStart(h) ==
    /\ kclosed = FALSE
    /\ kcloseOnce = "fresh"
    /\ khandler = h
    /\ kpc = [c \in Callers |-> "idle"]
    /\ kop = [c \in Callers |-> "none"]
    /\ kresult = [c \in Callers |-> NilError]
    /\ kreached = [c \in Callers |-> "none"]
    /\ klate = [c \in Callers |-> FALSE]
    /\ kcloseReturned = FALSE
    /\ kseen = NoSeen
    /\ kops = 0

LifeIdle == LifeStart(FALSE)

InitLife == \E h \in BOOLEAN : LifeStart(h)

\* a call starts
LifeBegin(c, name) ==
    /\ kpc[c] = "idle"
    /\ kops < MaxClientOps
    /\ kops' = kops + 1
    /\ kop' = [kop EXCEPT ![c] = name]
    /\ klate' = [klate EXCEPT ![c] = kcloseReturned]
    /\ kreached' = [kreached EXCEPT ![c] = "none"]

\* Close(): c.closeOnce.Do; the first caller runs the function, a caller
\* that arrives while it runs waits, a later caller returns nil at once
ClientClose(c) ==
    /\ LifeBegin(c, "Close")
    /\ kresult' = [kresult EXCEPT ![c] = NilError]
    /\ \/ /\ kcloseOnce = "fresh"
          /\ kcloseOnce' = "running"
          /\ kpc' = [kpc EXCEPT ![c] = "closing"]
          /\ UNCHANGED kcloseReturned
       \/ /\ kcloseOnce = "running"
          /\ kpc' = [kpc EXCEPT ![c] = "once_wait"]
          /\ UNCHANGED <<kcloseOnce, kcloseReturned>>
       \/ /\ kcloseOnce = "done"
          /\ kcloseReturned' = TRUE
          /\ UNCHANGED <<kcloseOnce, kpc>>
    /\ UNCHANGED <<kclosed, khandler, kseen>>
    /\ UNCHANGED otherThanLife

\* the function of closeOnce.Do: c.mu.Lock(), c.closed = true, the idle
\* connections and the finalizer, c.mu.Unlock()
ClientCloseBody(c) ==
    /\ kpc[c] = "closing"
    /\ kclosed' = TRUE
    /\ kpc' = [kpc EXCEPT ![c] = "close_return"]
    /\ UNCHANGED <<kcloseOnce, khandler, kop, kresult, kreached, klate,
                   kcloseReturned, kseen, kops>>
    /\ UNCHANGED otherThanLife

\* the end of closeOnce.Do, return err (nil)
ClientCloseReturn(c) ==
    /\ kpc[c] = "close_return"
    /\ kcloseOnce' = "done"
    /\ kcloseReturned' = TRUE
    /\ kpc' = [kpc EXCEPT ![c] = "idle"]
    /\ UNCHANGED <<kclosed, khandler, kop, kresult, kreached, klate, kseen, kops>>
    /\ UNCHANGED otherThanLife

\* a Close() that waited in closeOnce.Do returns nil
ClientCloseWaited(c) ==
    /\ kpc[c] = "once_wait"
    /\ kcloseOnce = "done"
    /\ kcloseReturned' = TRUE
    /\ kpc' = [kpc EXCEPT ![c] = "idle"]
    /\ UNCHANGED <<kclosed, kcloseOnce, khandler, kop, kresult, kreached,
                   klate, kseen, kops>>
    /\ UNCHANGED otherThanLife

\* Chat or StreamChat up to the call of the handler or the provider:
\* checkClosed, then validateRequest
ClientCall(c, name, valid) ==
    LET closedErr == checkClosed(kclosed) IN
    /\ LifeBegin(c, name)
    /\ IF closedErr # NilError
       THEN /\ kresult' = [kresult EXCEPT ![c] = closedErr]
            /\ UNCHANGED kpc
       ELSE IF ~valid
       THEN /\ kresult' = [kresult EXCEPT ![c] = InvalidRequestError]
            /\ UNCHANGED kpc
       ELSE /\ kresult' = [kresult EXCEPT ![c] = NilError]
            /\ kpc' = [kpc EXCEPT ![c] = "invoke"]
    /\ UNCHANGED <<kclosed, kcloseOnce, khandler, kcloseReturned, kseen>>
    /\ UNCHANGED otherThanLife

\* c.handler(ctx, req) when Chat has a chain, c.provider.Chat or
\* c.provider.StreamChat otherwise; the call returns what it returned
ClientInvoke(c, e) ==
    /\ kpc[c] = "invoke"
    /\ kreached' = [kreached EXCEPT ![c] =
           IF kop[c] = "Chat" /\ khandler THEN "handler" ELSE "provider"]
    /\ kresult' = [kresult EXCEPT ![c] = e]
    /\ kpc' = [kpc EXCEPT ![c] = "idle"]
    /\ UNCHANGED <<kclosed, kcloseOnce, khandler, kop, klate, kcloseReturned,
                   kseen, kops>>
    /\ UNCHANGED otherThanLife

\* IsClosed(), under the read lock
IsClosed(c) ==
    /\ LifeBegin(c, "IsClosed")
    /\ kseen' = [called |-> TRUE, value |-> kclosed,
                 before |-> (kcloseOnce = "fresh"), after |-> kcloseReturned]
    /\ UNCHANGED <<kclosed, kcloseOnce, khandler, kpc, kresult, kcloseReturned>>
    /\ UNCHANGED otherThanLife

NextLife ==
    \/ \E c \in Callers : ClientClose(c)
    \/ \E c \in Callers : ClientCloseBody(c)
    \/ \E c \in Callers : ClientCloseReturn(c)
    \/ \E c \in Callers : ClientCloseWaited(c)
    \/ \E c \in Callers, name \in {"Chat", "StreamChat"}, valid \in BOOLEAN :
           ClientCall(c, name, valid)
    \/ \E c \in Callers, e \in LifeProviderResults : ClientInvoke(c, e)
    \/ \E c \in Callers : IsClosed(c)

(***************************************************************************)
(* ChatStream.Accumulate (stream.go)                                       *)
(***************************************************************************)
\* a nil error, and s.ctx.Err() of a cancelled context
NoErr == ""

\* event.Data.(error) of an error-tagged event: its Data is an error value
\* when it is not a string
IsErrorEvent(event) == event.Type = "error" /\ ~event.IsString

\* the errors the producers have put in the queues and nobody received
QueuedErrors ==
    { errors[i] : i \in 1..Len(errors) }
    \cup { events[i].Data : i \in { j \in 1..Len(events) : IsErrorEvent(events[j]) } }

NoAccResult ==
    [resp |-> "nil", err |-> NoErr, closed |-> FALSE, ctx |-> FALSE, sent |-> {}]

AccumulateIdle ==
    /\ apc = "none"
    /\ accResult = NoAccResult

\* the consumer calls Accumulate()
Accumulate ==
    /\ ~panicked
    /\ apc = "none"
    /\ apc' = "select"
    /\ UNCHANGED accResult
    /\ UNCHANGED streamVars
    /\ UNCHANGED otherThanAccumulate

\* the cases of the select of Accumulate that can proceed: a receive from
\* s.events or s.errors can when the channel holds a value or is closed
AccumulateReady ==
    (IF Len(events) > 0 THEN {"event"} ELSE IF eventsClosed THEN {"events closed"} ELSE {})
    \cup (IF Len(errors) > 0 THEN {"error"} ELSE IF errorsClosed THEN {"errors closed"} ELSE {})
    \cup (IF ctxDone THEN {"ctx"} ELSE {})

\* Accumulate returns resp and err
AccumulateReturn(resp, e, sent) ==
    /\ apc' = "done"
    /\ accResult' = [resp |-> resp, err |-> e, closed |-> eventsClosed,
                     ctx |-> ctxDone, sent |-> sent]

\* one round of the loop of Accumulate: the select takes one of the cases
\* that can proceed (Go picks among them at random)
AccumulateSelect ==
    /\ ~panicked
    /\ apc = "select"
    /\ \E c \in AccumulateReady :
        \/ /\ c = "event"
           /\ IF ParkedOnEvents # {}
              THEN LET q == CHOOSE q \in ParkedOnEvents : TRUE
                   IN /\ events' = Append(Tail(events), op[q].val)
                      /\ lateEnqueued' = (lateEnqueued \/ lateSend[q])
                      /\ accepted' = Append(accepted, op[q].val)
                      /\ WakeParked("sent", {q})
              ELSE /\ events' = Tail(events)
                   /\ UNCHANGED <<pc, wake, lateEnqueued, accepted>>
           /\ IF IsErrorEvent(Head(events))
              THEN AccumulateReturn("nil", Head(events).Data, QueuedErrors)
              ELSE UNCHANGED <<apc, accResult>>
           /\ UNCHANGED errors
        \/ /\ c = "events closed"
           /\ AccumulateReturn("accumulated", NoErr, QueuedErrors)
           /\ UNCHANGED <<events, errors, pc, wake, lateEnqueued, accepted>>
        \/ /\ c = "error"
           /\ IF ParkedOnErrors # {}
              THEN LET q == CHOOSE q \in ParkedOnErrors : TRUE
                   IN /\ errors' = Append(Tail(errors), op[q].val)
                      /\ lateEnqueued' = (lateEnqueued \/ lateSend[q])
                      /\ UNCHANGED accepted
                      /\ WakeParked("sent", {q})
              ELSE /\ errors' = Tail(errors)
                   /\ UNCHANGED <<pc, wake, lateEnqueued, accepted>>
           /\ AccumulateReturn("nil", Head(errors), QueuedErrors)
           /\ UNCHANGED events
        \/ /\ c = "errors closed"
           /\ AccumulateReturn("nil", NoErr, QueuedErrors)
           /\ UNCHANGED <<events, errors, pc, wake, lateEnqueued, accepted>>
        \/ /\ c = "ctx"
           /\ AccumulateReturn("nil", Canceled, QueuedErrors)
           /\ UNCHANGED <<events, errors, pc, wake, lateEnqueued, accepted>>
    /\ UNCHANGED <<done, eventsClosed, errorsClosed, once, mu, accumulated,
                   ctxDone, op, panicked, sends, closeReturned, lateSend>>
    /\ UNCHANGED otherThanAccumulate

\* the producers send, close and are cancelled while the one consumer is in
\* Accumulate
NextAccumulate ==
    \/ \E p \in Procs, event \in StreamEvents : SendEvent(p, event)
    \/ \E p \in Procs, e \in StreamErrors : SendError(p, e)
    \/ \E p \in Procs : SendLock(p)
    \/ \E p \in Procs : SendSelect(p)
    \/ \E p \in Procs : SendPark(p)
    \/ \E p \in Procs : SendResume(p)
    \/ CancelStream
    \/ \E p \in Procs : Close(p)
    \/ \E p \in Procs : CloseDone(p)
    \/ \E p \in Procs : CloseEvents(p)
    \/ \E p \in Procs : CloseErrors(p)
    \/ \E p \in Procs : CloseWaited(p)
    \/ Accumulate
    \/ AccumulateSelect

(***************************************************************************)
(* Client.SimpleStreamChat (convenience.go)                                *)
(***************************************************************************)
\* the texts of the text deltas in the queue q that come before its first
\* finish or error event
RECURSIVE PendingDeltas(_)
PendingDeltas(q) ==
    IF q = <<>> THEN <<>>
    ELSE IF Head(q).Type \in {"finish", "error"} THEN <<>>
    ELSE IF Head(q).Type = "text-delta" /\ Head(q).IsString
         THEN <<Head(q).Data>> \o PendingDeltas(Tail(q))
         ELSE PendingDeltas(Tail(q))

NoSimpleResult == [err |-> NoErr, left |-> <<>>, by |-> "none"]

SimpleIdle ==
    /\ spc = "none"
    /\ chunks = <<>>
    /\ sresult = NoSimpleResult

\* SimpleStreamChat got the stream from c.StreamChat and enters its loop
SimpleStreamChat ==
    /\ ~panicked
    /\ spc = "none"
    /\ spc' = "select"
    /\ UNCHANGED <<chunks, sresult>>
    /\ UNCHANGED streamVars
    /\ UNCHANGED otherThanSimple

\* the return statement ran with error e through case c, q being the events
\* queued ahead of the event that ended the loop (none when an event ended
\* it: the queue is first in, first out); the deferred stream.Close() is next
SimpleReturn(e, c, q) ==
    /\ spc' = "defer"
    /\ sresult' = [err |-> e, left |-> PendingDeltas(q), by |-> c]

\* one round of the loop of SimpleStreamChat: the select takes one of the
\* cases that can proceed (Go picks among them at random)
SimpleSelect ==
    /\ ~panicked
    /\ spc = "select"
    /\ \E c \in AccumulateReady :
        \/ /\ c = "event"
           /\ IF ParkedOnEvents # {}
              THEN LET q == CHOOSE q \in ParkedOnEvents : TRUE
                   IN /\ events' = Append(Tail(events), op[q].val)
                      /\ lateEnqueued' = (lateEnqueued \/ lateSend[q])
                      /\ accepted' = Append(accepted, op[q].val)
                      /\ WakeParked("sent", {q})
              ELSE /\ events' = Tail(events)
                   /\ UNCHANGED <<pc, wake, lateEnqueued, accepted>>
           /\ LET event == Head(events) IN
              CASE event.Type = "text-delta" ->
                     /\ chunks' = IF event.IsString THEN Append(chunks, event.Data)
                                  ELSE chunks
                     /\ UNCHANGED <<spc, sresult>>
                [] IsErrorEvent(event) ->
                     /\ SimpleReturn(event.Data, "error event", <<>>)
                     /\ UNCHANGED chunks
                [] event.Type = "finish" ->
                     /\ SimpleReturn(NoErr, "finish", <<>>)
                     /\ UNCHANGED chunks
                [] OTHER -> UNCHANGED <<spc, chunks, sresult>>
           /\ UNCHANGED errors
        \/ /\ c = "events closed"
           /\ SimpleReturn(NoErr, c, events)
           /\ UNCHANGED <<events, errors, pc, wake, lateEnqueued, accepted, chunks>>
        \/ /\ c = "error"
           /\ IF ParkedOnErrors # {}
              THEN LET q == CHOOSE q \in ParkedOnErrors : TRUE
                   IN /\ errors' = Append(Tail(errors), op[q].val)
                      /\ lateEnqueued' = (lateEnqueued \/ lateSend[q])
                      /\ UNCHANGED accepted
                      /\ WakeParked("sent", {q})
              ELSE /\ errors' = Tail(errors)
                   /\ UNCHANGED <<pc, wake, lateEnqueued, accepted>>
           /\ SimpleReturn(Head(errors), c, events)
           /\ UNCHANGED <<events, chunks>>
        \/ /\ c = "errors closed"
           /\ SimpleReturn(NoErr, c, events)
           /\ UNCHANGED <<events, errors, pc, wake, lateEnqueued, accepted, chunks>>
        \/ /\ c = "ctx"
           /\ SimpleReturn(Canceled, c, events)
           /\ UNCHANGED <<events, errors, pc, wake, lateEnqueued, accepted, chunks>>
    /\ UNCHANGED <<done, eventsClosed, errorsClosed, once, mu, accumulated,
                   ctxDone, op, panicked, sends, closeReturned, lateSend>>
    /\ UNCHANGED otherThanSimple

\* defer stream.Close(): s.once.Do, as in Close
SimpleDefer ==
    /\ ~panicked
    /\ spc = "defer"
    /\ \/ /\ once = "fresh"
          /\ once' = "running"
          /\ spc' = "close_done"
          /\ UNCHANGED closeReturned
       \/ /\ once = "running"
          /\ spc' = "once_wait"
          /\ UNCHANGED <<once, closeReturned>>
       \/ /\ once = "done"
          /\ closeReturned' = TRUE
          /\ spc' = "returned"
          /\ UNCHANGED once
    /\ UNCHANGED <<events, errors, done, eventsClosed, errorsClosed, mu,
                   accumulated, ctxDone, pc, op, wake, panicked, sends,
                   lateSend,
                   lateEnqueued, accepted>>
    /\ UNCHANGED <<chunks, sresult>>
    /\ UNCHANGED otherThanSimple

\* the deferred Close: close(s.done)
SimpleCloseDone ==
    /\ ~panicked
    /\ spc = "close_done"
    /\ done' = TRUE
    /\ WakeParked("done", Parked)
    /\ spc' = "close_events"
    /\ UNCHANGED <<events, errors, eventsClosed, errorsClosed, once, mu,
                   accumulated, ctxDone, op, panicked, sends, closeReturned,
                   lateSend, lateEnqueued, accepted>>
    /\ UNCHANGED <<chunks, sresult>>
    /\ UNCHANGED otherThanSimple

\* the deferred Close: close(s.events)
SimpleCloseEvents ==
    /\ ~panicked
    /\ spc = "close_events"
    /\ eventsClosed' = TRUE
    /\ spc' = "close_errors"
    /\ UNCHANGED <<events, errors, done, errorsClosed, once, mu, accumulated,
                   ctxDone, pc, op, wake, panicked, sends, closeReturned,
                   lateSend, lateEnqueued, accepted>>
    /\ UNCHANGED <<chunks, sresult>>
    /\ UNCHANGED otherThanSimple

\* the deferred Close: close(s.errors), the end of once.Do, and
\* SimpleStreamChat returns
SimpleCloseErrors ==
    /\ ~panicked
    /\ spc = "close_errors"
    /\ errorsClosed' = TRUE
    /\ once' = "done"
    /\ closeReturned' = TRUE
    /\ spc' = "returned"
    /\ UNCHANGED <<events, errors, done, eventsClosed, mu, accumulated,
                   ctxDone, pc, op, wake, panicked, sends, lateSend,
                   lateEnqueued, accepted>>
    /\ UNCHANGED <<chunks, sresult>>
    /\ UNCHANGED otherThanSimple

\* the deferred Close waited in once.Do for the Close of the producer
SimpleCloseWaited ==
    /\ ~panicked
    /\ spc = "once_wait"
    /\ once = "done"
    /\ closeReturned' = TRUE
    /\ spc' = "returned"
    /\ UNCHANGED <<events, errors, done, eventsClosed, errorsClosed, once, mu,
                   accumulated, ctxDone, pc, op, wake, panicked, sends,
                   lateSend, lateEnqueued, accepted>>
    /\ UNCHANGED <<chunks, sresult>>
    /\ UNCHANGED otherThanSimple

\* the producers send, close and are cancelled while SimpleStreamChat consumes
NextSimple ==
    \/ \E p \in Procs, event \in StreamEvents : SendEvent(p, event)
    \/ \E p \in Procs, e \in StreamErrors : SendError(p, e)
    \/ \E p \in Procs : SendLock(p)
    \/ \E p \in Procs : SendSelect(p)
    \/ \E p \in Procs : SendPark(p)
    \/ \E p \in Procs : SendResume(p)
    \/ CancelStream
    \/ \E p \in Procs : Close(p)
    \/ \E p \in Procs : CloseDone(p)
    \/ \E p \in Procs : CloseEvents(p)
    \/ \E p \in Procs : CloseErrors(p)
    \/ \E p \in Procs : CloseWaited(p)
    \/ SimpleStreamChat
    \/ SimpleSelect
    \/ SimpleDefer
    \/ SimpleCloseDone
    \/ SimpleCloseEvents
    \/ SimpleCloseErrors
    \/ SimpleCloseWaited

(***************************************************************************)
(* handleStream of a provider (provider/google/stream.go, part_006)        *)
(***************************************************************************)
\* the goroutine that runs handleStream, and the goroutines of the caller
Producer == 1
Consumers == Procs \ {Producer}

\* what the loop of handleStream gets from the source: a chunk with text, the
\* end of the stream, an error of the upstream; and the done context
SourceOutcomes == {"chunk", "end", "failure", "ctx"}

\* the event or the error handleStream sends for the outcome
SentFor(outcome) ==
    CASE outcome = "chunk" ->
           [kind |-> "event", val |-> [Type |-> "text-delta", IsString |-> TRUE, Data |-> "a"]]
      [] outcome = "end" ->
           [kind |-> "event", val |-> [Type |-> "finish", IsString |-> FALSE, Data |-> "stop"]]
      [] outcome = "failure" -> [kind |-> "error", val |-> "e1"]
      [] OTHER -> [kind |-> "error", val |-> Canceled]

\* a loop that goes on reading the source after an upstream error
AfterOutcome_continue(outcome) == IF outcome \in {"end", "ctx"} THEN "return" ELSE "loop"

\* where handleStream goes after the send: back to the loop after a chunk,
\* to its return (the deferred Close) otherwise
AfterOutcome(outcome) == IF outcome = "chunk" THEN "loop" ELSE "return"

\* the name of a send in the log
LogName(o) == IF o.kind = "error" THEN "error" ELSE o.val.Type

ProducerIdle ==
    /\ prodPc = "start"
    /\ prodLog = <<>>

\* the producer calls SendEvent or SendError with o: the call goes for s.mu
ProducerSend(o) ==
    /\ pc[Producer] = "idle"
    /\ sends < MaxSends
    /\ sends' = sends + 1
    /\ pc' = [pc EXCEPT ![Producer] = "lock"]
    /\ op' = [op EXCEPT ![Producer] = o]
    /\ lateSend' = [lateSend EXCEPT ![Producer] = closeReturned]
    /\ prodLog' = Append(prodLog, LogName(o))
    /\ UNCHANGED <<events, errors, done, eventsClosed, errorsClosed, once, mu,
                   accumulated, ctxDone, wake, panicked, closeReturned,
                   lateEnqueued, accepted>>

\* handleStream starts: defer chatStream.Close() and SendEvent(start)
HandleStart ==
    /\ ~panicked
    /\ prodPc = "start"
    /\ ProducerSend([kind |-> "event",
                     val |-> [Type |-> "start", IsString |-> FALSE, Data |-> ""]])
    /\ prodPc' = "loop"
    /\ UNCHANGED otherThanProducer

\* one round of the loop: the ctx.Done() case can be taken when the context
\* is done; otherwise the source gives a chunk, its end or an error
HandleLoop(outcome) ==
    /\ ~panicked
    /\ prodPc = "loop"
    /\ outcome = "ctx" => ctxDone
    /\ ProducerSend(SentFor(outcome))
    /\ prodPc' = AfterOutcome(outcome)
    /\ UNCHANGED otherThanProducer

\* handleStream returns: the deferred chatStream.Close() enters s.once.Do
HandleReturn ==
    /\ ~panicked
    /\ prodPc = "return"
    /\ pc[Producer] = "idle"
    /\ prodLog' = Append(prodLog, "close")
    /\ prodPc' = "closing"
    /\ \/ /\ once = "fresh"
          /\ once' = "running"
          /\ pc' = [pc EXCEPT ![Producer] = "close_done"]
          /\ UNCHANGED closeReturned
       \/ /\ once = "running"
          /\ pc' = [pc EXCEPT ![Producer] = "once_wait"]
          /\ UNCHANGED <<once, closeReturned>>
       \/ /\ once = "done"
          /\ closeReturned' = TRUE
          /\ UNCHANGED <<once, pc>>
    /\ UNCHANGED <<events, errors, done, eventsClosed, errorsClosed, mu,
                   accumulated, ctxDone, op, wake, panicked, sends, lateSend,
                   lateEnqueued, accepted>>
    /\ UNCHANGED otherThanProducer

\* the deferred Close returned: the goroutine ends
HandleExit ==
    /\ ~panicked
    /\ prodPc = "closing"
    /\ pc[Producer] = "idle"
    /\ prodPc' = "exited"
    /\ UNCHANGED prodLog
    /\ UNCHANGED streamVars
    /\ UNCHANGED otherThanProducer

\* the producer and the steps inside the stream methods it called; the
\* caller's side: receiving, closing the stream, cancelling the context
NextProducer ==
    \/ HandleStart
    \/ \E outcome \in SourceOutcomes : HandleLoop(outcome)
    \/ HandleReturn
    \/ HandleExit
    \/ SendLock(Producer)
    \/ SendSelect(Producer)
    \/ SendPark(Producer)
    \/ SendResume(Producer)
    \/ \E p \in Procs : CloseDone(p)
    \/ \E p \in Procs : CloseEvents(p)
    \/ \E p \in Procs : CloseErrors(p)
    \/ \E p \in Procs : CloseWaited(p)
    \/ \E p \in Consumers : RecvEvent(p)
    \/ \E p \in Consumers : RecvError(p)
    \/ \E p \in Consumers : Close(p)
    \/ CancelStream

(***************************************************************************)
(* ExponentialBackoff.Next on its own (ratelimit_test.go, second part)     *)
(***************************************************************************)
\* the strategies: Base and Max are positive durations
Backoffs == [Base : 1..MaxNextBase, Max : 1..MaxNextCap]

\* the attempts: up to and beyond the width of a duration
Attempts == 0..(DurationBits + 1)

BackoffStart(b) ==
    /\ nbackoff = b
    /\ nattempt = 0
    /\ nout = 0
    /\ ncalls = 0

BackoffIdle == BackoffStart([Base |-> 1, Max |-> 1])

InitBackoff == \E b \in Backoffs : BackoffStart(b)

\* e.Next(attempt) is called
CallNext(n) ==
    /\ ncalls < 1
    /\ ncalls' = ncalls + 1
    /\ nattempt' = n
    /\ nout' = Next(nbackoff, n)
    /\ UNCHANGED nbackoff
    /\ UNCHANGED otherThanBackoff

NextBackoff == \E n \in Attempts : CallNext(n)

(***************************************************************************)
(* Specifications                                                          *)
(***************************************************************************)
StreamIdle == NewChatStream /\ ctxDone = FALSE

InitStreamSpec ==
    /\ NewChatStream
    /\ ClientIdle
    /\ BreakerIdle
    /\ RetryIdle
    /\ LimitIdle
    /\ BucketIdle
    /\ TimeoutIdle
    /\ CacheIdle
    /\ AdaptiveIdle
    /\ LifeIdle
    /\ AccumulateIdle
    /\ SimpleIdle
    /\ ProducerIdle
    /\ BackoffIdle

\* a sender that was woken in its select is scheduled again
StreamFairness == \A p \in Procs : WF_vars(SendResume(p))

SpecStream == InitStreamSpec /\ [][NextStream]_vars /\ StreamFairness

InitChainSpec ==
    /\ ClientIdle
    /\ StreamIdle
    /\ BreakerIdle
    /\ RetryIdle
    /\ LimitIdle
    /\ BucketIdle
    /\ TimeoutIdle
    /\ CacheIdle
    /\ AdaptiveIdle
    /\ LifeIdle
    /\ AccumulateIdle
    /\ SimpleIdle
    /\ ProducerIdle
    /\ BackoffIdle

SpecChain == InitChainSpec /\ [][NextChain]_vars

InitBreakerSpec ==
    /\ InitBreaker
    /\ StreamIdle
    /\ ClientIdle
    /\ RetryIdle
    /\ LimitIdle
    /\ BucketIdle
    /\ TimeoutIdle
    /\ CacheIdle
    /\ AdaptiveIdle
    /\ LifeIdle
    /\ AccumulateIdle
    /\ SimpleIdle
    /\ ProducerIdle
    /\ BackoffIdle

SpecBreaker == InitBreakerSpec /\ [][NextBreaker]_vars

InitRetrySpec ==
    /\ InitRetry
    /\ StreamIdle
    /\ ClientIdle
    /\ BreakerIdle
    /\ LimitIdle
    /\ BucketIdle
    /\ TimeoutIdle
    /\ CacheIdle
    /\ AdaptiveIdle
    /\ LifeIdle
    /\ AccumulateIdle
    /\ SimpleIdle
    /\ ProducerIdle
    /\ BackoffIdle

SpecRetry == InitRetrySpec /\ [][NextRetry]_vars

InitLimitSpec ==
    /\ InitLimit
    /\ StreamIdle
    /\ ClientIdle
    /\ BreakerIdle
    /\ RetryIdle
    /\ BucketIdle
    /\ TimeoutIdle
    /\ CacheIdle
    /\ AdaptiveIdle
    /\ LifeIdle
    /\ AccumulateIdle
    /\ SimpleIdle
    /\ ProducerIdle
    /\ BackoffIdle

\* a waiting caller's goroutine keeps running, the 50ms ticker keeps firing
\* and a ready case of the select is taken
LimitFairness ==
    /\ WF_vars(LimitTick)
    /\ \A c \in Callers :
        /\ WF_vars(WaitAllow(c))
        /\ WF_vars(WaitTicker(c) \/ WaitCancelled(c))

SpecLimit == InitLimitSpec /\ [][NextLimit]_vars /\ LimitFairness

InitBucketSpec ==
    /\ InitBucket
    /\ StreamIdle
    /\ ClientIdle
    /\ BreakerIdle
    /\ RetryIdle
    /\ LimitIdle
    /\ TimeoutIdle
    /\ CacheIdle
    /\ AdaptiveIdle
    /\ LifeIdle
    /\ AccumulateIdle
    /\ SimpleIdle
    /\ ProducerIdle
    /\ BackoffIdle

SpecBucket == InitBucketSpec /\ [][NextBucket]_vars

InitTimeoutSpec ==
    /\ InitTimeout
    /\ StreamIdle
    /\ ClientIdle
    /\ BreakerIdle
    /\ RetryIdle
    /\ LimitIdle
    /\ BucketIdle
    /\ CacheIdle
    /\ AdaptiveIdle
    /\ LifeIdle
    /\ AccumulateIdle
    /\ SimpleIdle
    /\ ProducerIdle
    /\ BackoffIdle

SpecTimeout == InitTimeoutSpec /\ [][NextTimeout]_vars /\ TimeoutFairness

InitCacheSpec ==
    /\ InitCache
    /\ StreamIdle
    /\ ClientIdle
    /\ BreakerIdle
    /\ RetryIdle
    /\ LimitIdle
    /\ BucketIdle
    /\ TimeoutIdle
    /\ AdaptiveIdle
    /\ LifeIdle
    /\ AccumulateIdle
    /\ SimpleIdle
    /\ ProducerIdle
    /\ BackoffIdle

SpecCache == InitCacheSpec /\ [][NextCache]_vars

InitAdaptiveSpec ==
    /\ InitAdaptive
    /\ StreamIdle
    /\ ClientIdle
    /\ BreakerIdle
    /\ RetryIdle
    /\ LimitIdle
    /\ BucketIdle
    /\ TimeoutIdle
    /\ CacheIdle
    /\ LifeIdle
    /\ AccumulateIdle
    /\ SimpleIdle
    /\ ProducerIdle
    /\ BackoffIdle

SpecAdaptive == InitAdaptiveSpec /\ [][NextAdaptive]_vars

InitLifeSpec ==
    /\ InitLife
    /\ StreamIdle
    /\ ClientIdle
    /\ BreakerIdle
    /\ RetryIdle
    /\ LimitIdle
    /\ BucketIdle
    /\ TimeoutIdle
    /\ CacheIdle
    /\ AdaptiveIdle
    /\ AccumulateIdle
    /\ SimpleIdle
    /\ ProducerIdle
    /\ BackoffIdle

SpecLife == InitLifeSpec /\ [][NextLife]_vars

InitAccumulateSpec ==
    /\ NewChatStream
    /\ AccumulateIdle
    /\ ClientIdle
    /\ BreakerIdle
    /\ RetryIdle
    /\ LimitIdle
    /\ BucketIdle
    /\ TimeoutIdle
    /\ CacheIdle
    /\ AdaptiveIdle
    /\ LifeIdle
    /\ SimpleIdle
    /\ ProducerIdle
    /\ BackoffIdle

SpecAccumulate == InitAccumulateSpec /\ [][NextAccumulate]_vars

InitSimpleSpec ==
    /\ NewChatStream
    /\ SimpleIdle
    /\ AccumulateIdle
    /\ ClientIdle
    /\ BreakerIdle
    /\ RetryIdle
    /\ LimitIdle
    /\ BucketIdle
    /\ TimeoutIdle
    /\ CacheIdle
    /\ AdaptiveIdle
    /\ LifeIdle
    /\ ProducerIdle
    /\ BackoffIdle

SpecSimple == InitSimpleSpec /\ [][NextSimple]_vars

InitProducerSpec ==
    /\ NewChatStream
    /\ ProducerIdle
    /\ SimpleIdle
    /\ AccumulateIdle
    /\ ClientIdle
    /\ BreakerIdle
    /\ RetryIdle
    /\ LimitIdle
    /\ BucketIdle
    /\ TimeoutIdle
    /\ CacheIdle
    /\ AdaptiveIdle
    /\ LifeIdle
    /\ BackoffIdle

SpecProducer == InitProducerSpec /\ [][NextProducer]_vars

InitBackoffSpec ==
    /\ InitBackoff
    /\ StreamIdle
    /\ ClientIdle
    /\ BreakerIdle
    /\ RetryIdle
    /\ LimitIdle
    /\ BucketIdle
    /\ TimeoutIdle
    /\ CacheIdle
    /\ AdaptiveIdle
    /\ LifeIdle
    /\ AccumulateIdle
    /\ SimpleIdle
    /\ ProducerIdle

SpecBackoff == InitBackoffSpec /\ [][NextBackoff]_vars

(***************************************************************************)
(* Properties                                                              *)
(***************************************************************************)

\* C1: after a Close() has returned, a SendEvent or SendError that starts
\* later does not panic, does not block and enqueues nothing.
C1_SendAfterCloseIsNoOp ==
    /\ \A p \in Procs : lateSend[p] => pc[p] \notin {"panicked", "parked"}
    /\ ~lateEnqueued

\* the calls an invocation of m1(m2(...mn(base)...)) makes: the steps before
\* next of m1..mn, the base handler, the steps after next of mn..m1
ExpectedCalls(ms) ==
    LET n == Len(ms)
    IN [ i \in 1..(2 * n + 1) |->
           IF i <= n THEN [who |-> ms[i], at |-> "before"]
           ELSE IF i = n + 1 THEN [who |-> "base", at |-> "call"]
           ELSE [who |-> ms[2 * n + 2 - i], at |-> "after"] ]

\* m1(m2(...mn(base)...))
RECURSIVE Nested(_)
Nested(ms) == IF ms = <<>> THEN baseHandler ELSE <<Head(ms)>> \o Nested(Tail(ms))

C3_ClosedBreaker ==
    /\ (lastOp.kind = "Allow" /\ prev.cb.state = StateClosed) =>
          /\ lastOp.admitted
          /\ invoked[lastOp.call]
          /\ cb.state = StateClosed
    /\ (lastOp.kind # "none" /\ prev.cb.state = StateClosed) =>
          /\ cb.state \in {StateClosed, StateOpen}
          /\ (cb.state = StateOpen) <=>
                (lastOp.kind = "RecordFailure" /\ streak = cb.maxFailures)
    /\ cb.state = StateClosed => (cb.failures = streak /\ streak < cb.maxFailures)
    /\ (lastOp.kind = "RecordSuccess" /\ prev.cb.state = StateClosed) =>
          (cb.failures = 0 /\ cb.state = StateClosed)

C3_Witness ==
    /\ lastOp.kind = "RecordFailure"
    /\ prev.cb.state = StateClosed
    /\ cb.state = StateOpen
    /\ cb.maxFailures = 2

\* C4: an admission check in Open admits the call iff more than the open
\* timeout has passed since lastFailureTime, and then the breaker is HalfOpen
\* with halfOpenAttempts zero; otherwise the call gets an internal error, the
\* wrapped handler is not invoked and the breaker stays Open.  Only an
\* admission check takes the breaker out of Open.
C4_OpenBreaker ==
    /\ (lastOp.kind = "Allow" /\ prev.cb.state = StateOpen) =>
          /\ lastOp.admitted <=> (prev.now - prev.cb.lastFailureTime > prev.cb.timeout)
          /\ lastOp.admitted =>
                /\ cb.state = StateHalfOpen
                /\ cb.halfOpenAttempts = 0
                /\ invoked[lastOp.call]
                /\ callPc[lastOp.call] = "next"
          /\ ~lastOp.admitted =>
                /\ cb.state = StateOpen
                /\ ~invoked[lastOp.call]
                /\ callPc[lastOp.call] = "idle"
                /\ callResult[lastOp.call].type = "llmx"
                /\ callResult[lastOp.call].code = "internal"
    /\ (prev.cb.state = StateOpen /\ cb.state # StateOpen) =>
          (lastOp.kind = "Allow" /\ cb.state = StateHalfOpen)

C4_Witness ==
    /\ lastOp.kind = "Allow"
    /\ prev.cb.state = StateOpen
    /\ lastOp.admitted
    /\ cb.timeout = 1
    /\ prev.now - prev.cb.lastFailureTime = 2

\* C5: in one HalfOpen episode at most halfOpenRequests calls are admitted,
\* the call whose admission check made the transition included.
C5_HalfOpenBudget == episodeAdmitted <= cb.halfOpenRequests

\* C6: a success recorded in HalfOpen increments the success counter, and the
\* breaker closes exactly when the counter reaches resetSuccesses, with the
\* failure, success and half-open attempt counters zero; a failure recorded
\* in HalfOpen opens the breaker at once and records the failure time.
C6_HalfOpenBreaker ==
    /\ (lastOp.kind = "RecordSuccess" /\ prev.cb.state = StateHalfOpen) =>
          IF prev.cb.successes + 1 = cb.resetSuccesses
          THEN /\ cb.state = StateClosed
               /\ cb.failures = 0
               /\ cb.successes = 0
               /\ cb.halfOpenAttempts = 0
          ELSE /\ cb.state = StateHalfOpen
               /\ cb.successes = prev.cb.successes + 1
               /\ cb.successes < cb.resetSuccesses
    /\ (lastOp.kind = "RecordFailure" /\ prev.cb.state = StateHalfOpen) =>
          /\ cb.state = StateOpen
          /\ cb.lastFailureTime = prev.now

C6_Witness ==
    /\ lastOp.kind = "RecordSuccess"
    /\ prev.cb.state = StateHalfOpen
    /\ prev.cb.successes = 1
    /\ cb.state = StateClosed

\* an error tagged retryable by the layer it comes from
TaggedRetryable(e) == e.type = "llmx" /\ e.retryable

\* C7 as stated: the wrapped handler is invoked at most maxAttempts times,
\* maxAttempts being the first argument of Retry.
C7_AtMostMaxAttempts == invocations <= maxRetries

\* C7 amended: the wrapped handler is invoked at most maxRetries + 1 times;
\* when every attempt fails with a retryable error and no sleep is cancelled
\* it is invoked exactly maxRetries + 1 times, maxRetries sleeps are made
\* (none after the final attempt) and the error of the final attempt is
\* returned unmodified.
C7_AtMostMaxRetriesPlusOne ==
    /\ invocations <= maxRetries + 1
    /\ (rpc = "done" /\ exit = "exhausted") =>
          /\ invocations = maxRetries + 1
          /\ Len(sleeps) = maxRetries
          /\ result = [resp |-> "", err |-> outcomes[Len(outcomes)].err]
    /\ (/\ rpc = "done"
        /\ exit # "cancelled"
        /\ \A i \in 1..Len(outcomes) : TaggedRetryable(outcomes[i].err)) =>
          exit = "exhausted"

C7_Witness ==
    /\ rpc = "done"
    /\ exit = "exhausted"
    /\ maxRetries = 2
    /\ outcomes[2].err # outcomes[3].err

\* C8: when the wrapped handler fails with an error that is not tagged
\* retryable, that invocation is the last one, no sleep follows it and Retry
\* returns that error unchanged; when it is the first invocation, the
\* handler has run exactly once and no sleep was made.
C8_NonRetryableReturned ==
    \A i \in 1..Len(outcomes) :
        (outcomes[i].err # NilError /\ ~TaggedRetryable(outcomes[i].err)) =>
            /\ i = Len(outcomes)
            /\ rpc = "done"
            /\ result = [resp |-> "", err |-> outcomes[i].err]
            /\ Len(sleeps) = i - 1
            /\ (i = 1 => (invocations = 1 /\ sleeps = <<>>))

C8_Witness ==
    /\ rpc = "done"
    /\ Len(outcomes) = 1
    /\ outcomes[1].err.type = "generic"

\* C9: when the wrapped handler fails with retryable errors k times and then
\* succeeds, Retry has invoked it k + 1 times, returns that success with no
\* error, and has slept backoff.Next(i) after the i-th failure, i = 0..k-1;
\* Retry does not give up before the attempt limit.
C9_SuccessAfterFailures ==
    /\ (Len(outcomes) >= 1 /\ outcomes[Len(outcomes)].err = NilError) =>
          LET k == Len(outcomes) - 1
          IN /\ rpc = "done"
             /\ invocations = k + 1
             /\ result = [resp |-> outcomes[k + 1].resp, err |-> NilError]
             /\ result.resp # ""
             /\ Len(sleeps) = k
             /\ \A i \in 1..k : sleeps[i] = Next(backoff, i - 1)
    /\ (rpc = "done" /\ exit = "exhausted") => Len(outcomes) >= maxRetries

C9_Witness ==
    /\ rpc = "done"
    /\ Len(outcomes) = 3
    /\ outcomes[3].err = NilError
    /\ backoff.Base = 1
    /\ sleeps = <<1, 2>>

\* C10: when the context is cancelled while the call sleeps between two
\* attempts, the call returns the context's error, not the error of the
\* failed attempt, and the wrapped handler is not invoked again.
C10_CancelledSleep ==
    cancelledInSleep =>
        /\ rpc \in {"woken", "done"}
        /\ rpc = "woken" => rwake = "ctx"
        /\ invocations = invAtCancel
        /\ rpc = "done" =>
              /\ exit = "cancelled"
              /\ result = [resp |-> "", err |-> ContextCanceled]
              /\ result.err # err

C10_Witness ==
    /\ cancelledInSleep
    /\ rpc = "done"
    /\ invocations = 2

\* the admissions of the limiter in the trailing window (t - window, t]
AdmittedInWindow(id, t) ==
    SelectSeq(admissions,
              LAMBDA a : a.id = id /\ a.t > t - instances[id].windowPeriod /\ a.t <= t)

\* C11: under any interleaving of Allow and Wait callers of a sliding window
\* limiter, at every instant t at most maxRequests admissions lie in the
\* trailing window (t - window, t], and every Allow admitted exactly when
\* fewer than maxRequests earlier admissions lay in its window.
C11_SlidingWindow ==
    lkind # "CircuitBreakerPerModel" =>
        /\ windowed
        /\ \A id \in DOMAIN instances, t \in 0..MaxTime :
               Len(AdmittedInWindow(id, t)) <= instances[id].maxRequests

\* a limiter refused a call and later, the oldest admission having left the
\* window, admitted again
C11_Witness ==
    /\ lkind = "RateLimit"
    /\ ~lwait
    /\ \E c \in Callers : lpc[c] = "done" /\ lresult[c].err = AllowRefused
    /\ Len(admissions) > instances[1].maxRequests
    /\ admissions[Len(admissions)].t = lclock
    /\ LimitReached(instances[1], instances[1].requests)

\* C13: the rate limiting middleware, global and per model, invokes the
\* wrapped handler exactly once when the limiter admitted the call and not at
\* all otherwise; a refused Allow returns a rate-limit error with retry-after
\* of one second, a failed Wait one with retry-after 0.
C13_RateLimitMiddleware ==
    lkind \in {"RateLimit", "RateLimitPerModel"} =>
        \A c \in Callers :
            /\ lhandlerCalls[c] <= 1
            /\ (lhandlerCalls[c] = 1) => ladmitted[c]
            /\ (lpc[c] = "done") =>
                   /\ ladmitted[c] => lhandlerCalls[c] = 1
                   /\ ~ladmitted[c] =>
                          /\ lresult[c].resp = ""
                          /\ lresult[c].err.code = "rate_limit"
                          /\ lresult[c].err.retryAfter =
                                 IF lwait THEN 0 ELSE RetryAfterSeconds

\* a blocking per-model call failed in Wait while another call was admitted
\* and ran the handler
C13_Witness ==
    /\ lkind = "RateLimitPerModel"
    /\ lwait
    /\ \E c, d \in Callers :
           /\ lpc[c] = "done" /\ ~ladmitted[c] /\ lhandlerCalls[c] = 0
           /\ lpc[d] = "done" /\ ladmitted[d] /\ lhandlerCalls[d] = 1

\* C14: under any interleaving of GetLimiter (GetBreaker) calls the factory
\* is invoked at most once per model and exactly once for a model some call
\* obtained an instance for, every caller of a model holds the one instance
\* registered for it, different models have different instances, and an
\* instance is changed only by calls for its own model.
C14_OneInstancePerKey ==
    lkind # "RateLimit" =>
        /\ Len(instances) = Len(factoryCalls)
        /\ \A m \in Models :
               /\ Cardinality({i \in DOMAIN factoryCalls : factoryCalls[i] = m}) <= 1
               /\ (registry[m] # 0) <=> (\E i \in DOMAIN factoryCalls : factoryCalls[i] = m)
        /\ \A c \in Callers : lim[c] # 0 => lim[c] = registry[lreq[c]]
        /\ \A m1, m2 \in Models :
               (m1 # m2 /\ registry[m1] # 0) => registry[m1] # registry[m2]
        /\ \A x \in touched : registry[x[2]] = x[1]

\* two callers missed the same model in the first look, one of them created
\* the instance and used it, the other is about to take the write lock; a
\* second model has its own instance
C14_Witness ==
    /\ lkind # "RateLimit"
    /\ \E c, d \in Callers :
           /\ lpc[d] = "create"
           /\ lreq[c] # lreq[d]
           /\ registry[lreq[d]] # 0
           /\ lim[c] = registry[lreq[c]]
           /\ lim[c] # 0
    /\ touched # {}

\* the answers of the Allow calls before the i-th that were made at or after
\* the instant u and succeeded
GrantsSince(i, u) ==
    Cardinality({j \in 1..(i - 1) : allows[j].ok /\ allows[j].t >= u})

\* the tokens available to the i-th Allow, from the history alone: the bucket
\* was full at the start, gains limit units per tick up to the capacity and
\* loses one whole token per earlier success
Available(i) ==
    LET t == allows[i].t
        from(u) == bucket.burst * WholeToken + (t - u) * bucket.limit
                       - GrantsSince(i, u) * WholeToken
    IN  CHOOSE v \in {from(u) : u \in 0..t} : \A u \in 0..t : v <= from(u)

\* C12: Allow of a token bucket of capacity C and rate R succeeds exactly
\* when at least one whole token is available and then consumes exactly one;
\* the tokens never exceed C, so that between any two instants at most
\* C + R * (time between them) calls of Allow succeed (at most C with no time
\* elapsing).
C12_TokenBucket ==
    /\ bucket.tokens <= bucket.burst * WholeToken
    /\ \A i \in DOMAIN allows : allows[i].ok <=> Available(i) >= WholeToken
    /\ (allows # <<>> /\ allows[Len(allows)].ok) =>
           /\ bucket.tokens = Available(Len(allows)) - WholeToken
           /\ bucket.last = allows[Len(allows)].t
    /\ \A t1 \in 0..MaxTime, t2 \in 0..MaxTime :
           t1 <= t2 =>
               Cardinality({i \in DOMAIN allows :
                               allows[i].ok /\ allows[i].t >= t1 /\ allows[i].t <= t2})
                   * WholeToken
               <= bucket.burst * WholeToken + (t2 - t1) * bucket.limit

\* R = 1/s, C = 1: the first Allow succeeds, an immediately following one and
\* one half a second later fail, one a whole second later succeeds
C12_Witness ==
    /\ bucket.limit = 1
    /\ bucket.burst = 1
    /\ Len(allows) = 4
    /\ allows[1] = [t |-> 0, ok |-> TRUE]
    /\ allows[2] = [t |-> 0, ok |-> FALSE]
    /\ allows[3].t < TicksPerSecond /\ allows[3].t > 0 /\ ~allows[3].ok
    /\ allows[4] = [t |-> TicksPerSecond, ok |-> TRUE]

\* the middleware returned its timeout error
TimedOut == tpc = "done" /\ tresult.err = TimeoutError(tresult.err.cause)

\* C15: a call through a timeout middleware (fixed, per-model, adaptive)
\* returns even when the wrapped handler never delivers; what it returns is
\* either the pair the handler delivered or an internal-kind timeout error
\* whose cause is the error of the context; after a timeout error the
\* handler's result stays in the channel and reaches no caller.
C15_TimeoutReturns ==
    /\ [](tpc = "done" =>
             \/ /\ hpc = "delivered"
                /\ tresult = hreturned
                /\ resultChan = <<>>
             \/ /\ tresult.resp = ""
                /\ tresult.err.code = "internal"
                /\ tresult.err.cause \in {DeadlineExceeded, Canceled}
                /\ tresult.err.cause = tctxErr
                /\ hpc = "delivered" => resultChan = <<hreturned>>)
    /\ ((tpc = "select") ~> (tpc = "done"))

\* the deadline passed, the middleware returned the timeout error with the
\* deadline as its cause, and the handler's own response, delivered after
\* that, sits in the channel
C15_Witness ==
    /\ TimedOut
    /\ tresult.err.cause = DeadlineExceeded
    /\ tclock >= tentry + ttimeout
    /\ ttimeout > 0
    /\ hpc = "delivered"
    /\ hreturned.err = NilError
    /\ resultChan = <<hreturned>>

\* the earlier of two instants, the first being there only when ok
Earlier(ok, a, b) == IF ok /\ a < b THEN a ELSE b

\* C16: the context the wrapped handler receives is derived from the inbound
\* one; its deadline is the earlier of the inbound deadline and entry +
\* timeout, it is done as soon as the inbound context is cancelled, and the
\* middleware reports a deadline only from that instant on: a tighter
\* deadline of the caller is never replaced by the looser timeout.
C16_EarlierBound ==
    tpc # "idle" =>
        /\ tdeadline = Earlier(tinbound.ok, tinbound.at, tentry + ttimeout)
        /\ (tinbound.ok /\ tinbound.at <= tentry + ttimeout) => tdeadline = tinbound.at
        /\ tinCancelled => tctxErr # ""
        /\ tctxErr = DeadlineExceeded =>
               tclock >= Earlier(tinbound.ok, tinbound.at, tentry + ttimeout)
        /\ (tpc = "select" /\ tctxErr = ""
               /\ tclock >= Earlier(tinbound.ok, tinbound.at, tentry + ttimeout))
             => ENABLED DeadlineFires

\* the caller's deadline is tighter than the timeout of the middleware and
\* the call timed out at it, before entry + timeout
C16_Witness ==
    /\ TimedOut
    /\ tinbound.ok
    /\ tinbound.at < tentry + ttimeout
    /\ tclock = tinbound.at
    /\ tresult.err.cause = DeadlineExceeded

\* C17 as claimed: a call that looks up while the ttl of an earlier
\* successful call with the same key has not elapsed returns the content that
\* call returned, without invoking the handler.
C17_LaterCallsSameContent ==
    cmode = "middleware" =>
        \A c \in Callers :
            cpc[c] = "done" =>
                \A x \in cprior[c] :
                    /\ cresult[c] = [resp |-> x, err |-> NilError]
                    /\ chandlerCalls[c] = 0

\* C17: once a response is stored under the key of a request, a call with
\* that key that looks up before the ttl of the last store has elapsed
\* returns, without invoking the wrapped handler, the content stored last
\* (the content of an earlier successful call unless an overlapping call
\* with the same key stored its own response after it).
C17_LaterCallsHitLastStored ==
    cmode = "middleware" =>
        \A c \in Callers :
            (cpc[c] = "done" /\ cfresh[c].set) =>
                /\ cresult[c] = [resp |-> cfresh[c].value, err |-> NilError]
                /\ chandlerCalls[c] = 0

\* a call hit, a tick after the store, the response a call before it stored
C17_Witness ==
    /\ cmode = "middleware"
    /\ cttl > 0
    /\ \E c \in Callers :
           /\ cpc[c] = "done"
           /\ cfresh[c].set
           /\ cprior[c] = {cresult[c].resp}
           /\ chandlerCalls[c] = 0
           /\ cclock > cfresh[c].at

\* only responses the handler returned without error are in the cache, and
\* a call whose handler failed returns the error
ErrorsNotStored ==
    /\ \A k \in CacheKeys : items[k].present => <<k, items[k].value>> \in successes
    /\ \A c \in Callers :
           (cpc[c] = "done" /\ chandlerCalls[c] = 1 /\ cresult[c].resp = "") =>
               cresult[c] = [resp |-> "", err |-> GenericError("provider error")]

C19_GetLastSet ==
    (cmode = "direct" /\ lastGet # NoGet) =>
        /\ lastGet.ok <=> (/\ lastGet.write.op = "set"
                           /\ lastGet.at <= lastGet.write.at + lastGet.write.ttl)
        /\ lastGet.ok => lastGet.value = lastGet.write.value
        /\ ~lastGet.ok => lastGet.value = ""

\* a Get hit after the sweep had purged the expired entry of another key
C19_Witness ==
    /\ cmode = "direct"
    /\ lastGet.ok
    /\ lastGet.at = cclock
    /\ \E k \in CacheKeys :
           /\ k # lastGet.key
           /\ lastWrite[k].op = "set"
           /\ ~items[k].present

\* the admission errors of CircuitBreaker.Allow
AdmissionErrors ==
    { "circuit breaker is open",
      "circuit breaker is half-open, max attempts reached",
      "unknown circuit breaker state" }

\* C21: the error a middleware returns when it refuses or aborts a call
\* itself is of the documented kind (rate-limit for the limiter, internal for
\* the breaker and the timeout) and its cause, reached by unwrapping, is the
\* underlying error where there is one: the error of Wait, the admission
\* error of the breaker, the error of the context.
C21_RefusalWrapsCause ==
    /\ \A c \in Callers :
           (lpc[c] = "done" /\ ~ladmitted[c]) =>
               IF lkind = "CircuitBreakerPerModel"
               THEN /\ lresult[c].err.code = "internal"
                    /\ lresult[c].err.cause \in AdmissionErrors
               ELSE /\ lresult[c].err.code = "rate_limit"
                    /\ lwait => lresult[c].err.cause = ContextCanceled.msg
    /\ (lastOp.kind = "Allow" /\ ~lastOp.admitted) =>
           /\ callResult[lastOp.call].code = "internal"
           /\ callResult[lastOp.call].cause \in AdmissionErrors
    /\ (tpc = "done" /\ tresult.resp = "" /\ tresult # hreturned) =>
           /\ tresult.err.code = "internal"
           /\ tresult.err.cause = tctxErr
           /\ tctxErr \in {DeadlineExceeded, Canceled}

\* C22: a call the breaker middleware admitted records exactly once, when
\* the wrapped handler has returned: a failure for any non-nil error
\* (retryable or not, llmx-typed or generic), a success for a nil error; the
\* caller gets the handler's error as it is; a refused call records nothing.
C22_EveryErrorRecorded ==
    /\ \A c \in Calls :
           /\ callPc[c] = "next" => records[c] = <<>>
           /\ (callPc[c] = "idle" /\ ~invoked[c]) => records[c] = <<>>
           /\ (callPc[c] = "idle" /\ invoked[c]) =>
                  /\ records[c] = << IF handled[c] # NilError
                                     THEN "RecordFailure" ELSE "RecordSuccess" >>
                  /\ callResult[c] = handled[c]
    /\ lastOp.kind \in {"RecordFailure", "RecordSuccess"} =>
           cb = IF handled[lastOp.call] # NilError
                THEN RecordFailure(prev.cb, prev.now)
                ELSE RecordSuccess(prev.cb)

\* a generic, non-retryable error of the handler was recorded as the failure
\* that opened the breaker, while another call has recorded a success
C22_Witness ==
    /\ lastOp.kind = "RecordFailure"
    /\ handled[lastOp.call] = GenericError("service unavailable")
    /\ callResult[lastOp.call] = GenericError("service unavailable")
    /\ prev.cb.state = StateClosed
    /\ cb.state = StateOpen
    /\ \E c \in Calls : records[c] = <<"RecordSuccess">>

\* the callers of Close() inside the function of s.once.Do
Closing == { p \in Procs : pc[p] \in {"close_done", "close_events", "close_errors"} }

\* C23: with any number of concurrent Close() calls, one caller at most runs
\* the closing function, each of its three close statements finds its channel
\* open (so done, events and errors are each closed once and no Close
\* panics), the channels are all closed once the function has run, and no
\* Close call blocks: the closer can always take its next step and a caller
\* waiting in once.Do returns as soon as the function has run.
C23_CloseIdempotent ==
    /\ Cardinality(Closing) <= 1
    /\ (Closing # {}) <=> (once = "running")
    /\ \A p \in Procs :
           /\ pc[p] = "close_done" => (~done /\ ~eventsClosed /\ ~errorsClosed)
           /\ pc[p] = "close_events" => (done /\ ~eventsClosed /\ ~errorsClosed)
           /\ pc[p] = "close_errors" => (done /\ eventsClosed /\ ~errorsClosed)
           /\ pc[p] = "once_wait" => once \in {"running", "done"}
    /\ once = "fresh" => (~done /\ ~eventsClosed /\ ~errorsClosed /\ ~closeReturned)
    /\ once = "done" => (done /\ eventsClosed /\ errorsClosed)
    /\ closeReturned => once = "done"
    /\ ~panicked =>
           \A p \in Procs :
               /\ pc[p] = "idle" => ENABLED Close(p)
               /\ pc[p] = "close_done" => ENABLED CloseDone(p)
               /\ pc[p] = "close_events" => ENABLED CloseEvents(p)
               /\ pc[p] = "close_errors" => ENABLED CloseErrors(p)
               /\ (pc[p] = "once_wait" /\ once = "done") => ENABLED CloseWaited(p)

\* a second Close() waits in once.Do while the first is about to close the
\* errors channel
C23_Witness ==
    \E p, q \in Procs :
        /\ pc[p] = "close_errors"
        /\ pc[q] = "once_wait"

\* C24: CalculateTimeout returns min(base + messages * perMessage +
\* tools * perTool, max), messages and tools being the lengths of the lists
\* of the request.
C24_CalculateTimeout ==
    acalls > 0 =>
        aout = Min(acfg.baseTimeout + areq.messages * acfg.perMessage
                       + areq.tools * acfg.perTool,
                   acfg.maxTimeout)

\* the sum of a request with a message and two tools is above the maximum
\* and the maximum was returned, the base alone being below it
C24_Witness ==
    /\ acalls > 0
    /\ areq.messages = 1
    /\ areq.tools = 2
    /\ acfg.baseTimeout > 0 /\ acfg.perMessage > 0 /\ acfg.perTool > 0
    /\ acfg.baseTimeout < acfg.maxTimeout
    /\ acfg.baseTimeout + acfg.perMessage + 2 * acfg.perTool > acfg.maxTimeout
    /\ aout = acfg.maxTimeout

\* C25: every Close returns nil; IsClosed answers false while no Close has
\* started and true once a Close has returned; a Chat or StreamChat call that
\* starts after a Close has returned returns the closed-client error and
\* invokes neither the provider nor the middleware chain.
C25_ClosedClient ==
    /\ \A c \in Callers : kop[c] = "Close" => kresult[c] = NilError
    /\ kcloseReturned => kclosed
    /\ kcloseOnce = "fresh" => ~kclosed
    /\ kseen.before => ~kseen.value
    /\ kseen.after => kseen.value
    /\ \A c \in Callers :
           (klate[c] /\ kop[c] \in {"Chat", "StreamChat"}) =>
               /\ kpc[c] = "idle"
               /\ kreached[c] = "none"
               /\ kresult[c] = ClientClosedError

\* a Close that started after another had returned has returned nil, a Chat
\* on a client with a chain was refused, and IsClosed answered true
C25_Witness ==
    /\ khandler
    /\ kseen.after /\ kseen.value
    /\ \E c, d \in Callers :
           /\ c # d
           /\ kop[c] = "Close" /\ klate[c] /\ kpc[c] = "idle"
           /\ kop[d] = "Chat" /\ klate[d] /\ kresult[d] = ClientClosedError

\* C26: no sender waits on a full events or errors queue while it owns the
\* mutex of the stream, the one GetAccumulated needs.
C26_NoLockWhileBlocked ==
    \A p \in Procs : pc[p] = "parked" => mu # p

\* some process that is inside a call can take its next step
InFlightCanStep ==
    \E q \in Procs :
        \/ ENABLED SendLock(q)
        \/ ENABLED SendSelect(q)
        \/ ENABLED SendPark(q)
        \/ ENABLED SendResume(q)
        \/ ENABLED CloseDone(q)
        \/ ENABLED CloseEvents(q)
        \/ ENABLED CloseErrors(q)
        \/ ENABLED CloseWaited(q)
        \/ ENABLED GetAccumulatedReturn(q)

\* C30: while the stream is open and its context is not cancelled, a
\* consumer inside GetAccumulated is never stuck together with the producer
\* of events: when no process is free to receive, some process inside a call
\* can go on.
C30_GetAccumulatedReturns ==
    (/\ \E p \in Procs : pc[p] = "acc_lock"
     /\ \A p \in Procs : pc[p] # "idle" /\ op[p].kind # "error"
     /\ ~done /\ ~ctxDone /\ ~panicked)
        => InFlightCanStep

\* C27: Accumulate never returns a nil response with a nil error; when the
\* stream is closed and the producers sent no error it returns the
\* accumulated response with a nil error; when a producer sent an error (on
\* the errors channel or as an error-tagged event) it returns an error that
\* was sent; when the context is cancelled, the stream open and no error
\* sent, it returns the error of the context.
C27_AccumulateOutcome ==
    apc = "done" =>
        /\ ~(accResult.resp = "nil" /\ accResult.err = NoErr)
        /\ (accResult.closed /\ ~accResult.ctx /\ accResult.sent = {}) =>
               (accResult.resp = "accumulated" /\ accResult.err = NoErr)
        /\ (accResult.sent # {} /\ ~accResult.ctx) =>
               (accResult.resp = "nil" /\ accResult.err \in accResult.sent)
        /\ (accResult.ctx /\ ~accResult.closed /\ accResult.sent = {}) =>
               (accResult.resp = "nil" /\ accResult.err = Canceled)

\* C28: the breaker does not stay HalfOpen forever: when every call of the
\* middleware has completed and been recorded, the breaker is not HalfOpen
\* with its probe budget exhausted (a state in which every further call is
\* rejected and nothing is left to record).
C28_HalfOpenEnds ==
    (\A c \in Calls : callPc[c] = "idle") =>
        ~(cb.state = StateHalfOpen /\ AttemptsExhausted(cb))

\* C29: requests that differ (in model, messages or tool declarations) never
\* share a cache key, also when they carry tools: two calls of the middleware
\* with different requests look up different keys, and a call answered from
\* the cache gets a response the handler computed for the same request.
C29_OwnResponse ==
    cmode = "middleware" =>
        /\ \A c, d \in Callers :
               (cpc[c] # "idle" /\ cpc[d] # "idle" /\ creq[c] # creq[d]) =>
                   generateCacheKey(creq[c]) # generateCacheKey(creq[d])
        /\ \A c \in Callers :
               (cpc[c] = "done" /\ chandlerCalls[c] = 0) =>
                   (cfresh[c].set /\ cfresh[c].req = creq[c])

\* C31: SimpleStreamChat does not return nil while text deltas the producer
\* enqueued before its finish event or its Close are still in the queue:
\* every such delta was handed to onChunk before the nil return.
C31_AllDeltasDelivered ==
    (spc \notin {"none", "select"} /\ sresult.err = NoErr) => sresult.left = <<>>

\* C32: the queues never hold more than their capacity; a sender is blocked
\* in its select only while its queue is full and the stream is neither
\* closed nor cancelled; a blocked sender that the cancellation or the close
\* wakes returns without enqueuing; and a woken sender does return.
QueuesWithinCapacity ==
    /\ Len(events) <= EventsCap
    /\ Len(errors) <= ErrorsCap

BlockedOnlyOnFullQueue ==
    \A p \in Procs :
        pc[p] = "parked" =>
            /\ Len(SendQueue(p)) = SendCap(p)
            /\ ~done
            /\ ~ctxDone

WokenReturnsWithoutEnqueuing ==
    \A p \in Procs :
        (pc[p] = "woken" /\ wake[p] \in {"ctx", "done"} /\ pc'[p] = "idle") =>
            /\ events' = events
            /\ errors' = errors
            /\ accumulated' = accumulated

C32_Backpressure ==
    /\ [](QueuesWithinCapacity /\ BlockedOnlyOnFullQueue)
    /\ [][WokenReturnsWithoutEnqueuing]_vars
    /\ \A p \in Procs : (pc[p] = "woken") ~> (pc[p] = "idle" \/ panicked)

\* a sender blocked on the full events queue was woken by the close of the
\* stream, another by the cancellation
C32_Witness ==
    \E p \in Procs :
        /\ pc[p] = "woken"
        /\ wake[p] \in {"ctx", "done"}
        /\ op[p].kind = "event"
        /\ Len(events) = EventsCap

\* C33: a success or a failure recorded while the breaker is Open (by a call
\* admitted before the trip) leaves the state, the counters and
\* lastFailureTime as they were: the Open period is not prolonged.
C33_OpenPeriodFixed ==
    (lastOp.kind \in {"RecordSuccess", "RecordFailure"} /\ prev.cb.state = StateOpen)
        => cb = prev.cb

\* C34: handleStream sends the start event first, closes the stream exactly
\* once on every exit path, calls nothing on the stream after its Close, and
\* after an error it sent does nothing but close the stream.
Closes == { i \in 1..Len(prodLog) : prodLog[i] = "close" }

RECURSIVE TextPayloads(_)
TextPayloads(q) ==
    IF q = <<>> THEN <<>>
    ELSE (IF Head(q).Type = "text-delta" /\ Head(q).IsString
          THEN <<Head(q).Data>> ELSE <<>>) \o TextPayloads(Tail(q))

C35_AccumulatedContent == mu = 0 => accumulated = TextPayloads(accepted)

\* three sends were made and have returned: two events were accepted, one of
\* them a text delta with a string payload, and the third send left nothing
\* in the queues
C35_Witness ==
    /\ mu = 0
    /\ \A p \in Procs : pc[p] = "idle"
    /\ sends = 3
    /\ Len(accepted) = 2
    /\ Len(events) + Len(errors) < 3
    /\ errors = <<>>
    /\ accumulated = <<"a">>

\* C36: Next(attempt) is min(Base * 2^attempt, Max) for every attempt >= 0,
\* also when Base * 2^attempt is beyond the range of a duration: positive,
\* never above Max, and not below what the attempt before gives.
C36_BackoffNext ==
    ncalls > 0 =>
        /\ nout = Min(nbackoff.Base * (2 ^ nattempt), nbackoff.Max)
        /\ nout > 0
        /\ nout <= nbackoff.Max
        /\ nattempt > 0 => Next(nbackoff, nattempt - 1) <= nout

\* C37: every admission check of a sliding window limiter discards exactly
\* the timestamps strictly older than now - window (one equal to now - window
\* is kept and counts), admits exactly when fewer than maxRequests are kept,
\* records now only when it admits, and keeps at most maxRequests timestamps.
C37_PrunesStrictlyOlder == lkind # "CircuitBreakerPerModel" => pruned

\* a caller inside SlidingWindowLimiter.Wait
Waiting(c) == lpc[c] \in {"loop", "select"}

\* Wait returned nil to the caller: the middleware goes on to the handler
WaitReturnedNil(c) ==
    /\ lwait
    /\ lkind # "CircuitBreakerPerModel"
    /\ \/ lpc[c] = "next"
       \/ lpc[c] = "done" /\ lhandlerCalls[c] > 0

\* Wait returned the context's error, which the middleware wraps
WaitReturnedError(c) ==
    /\ lwait
    /\ lkind # "CircuitBreakerPerModel"
    /\ lpc[c] = "done"
    /\ lhandlerCalls[c] = 0

WaitOutcomes ==
    \A c \in Callers :
        /\ WaitReturnedNil(c) => lgot[c] = 1
        /\ WaitReturnedError(c) =>
               /\ lgot[c] = 0
               /\ lctxDone[c]
               /\ lresult[c].err = WaitFailed(ContextCanceled)
        /\ Waiting(c) => lgot[c] = 0

\* the clock of the model has stopped at its bound while the window of the
\* caller's limiter still holds maxRequests admissions, and the caller has
\* consumed the last tick
StoppedWhileFull(c) ==
    LET s == instances[lim[c]] IN
    /\ lclock = MaxTime
    /\ lpc[c] = "select"
    /\ lticker[c] = MaxTime
    /\ Len(AdmittedAfter(lim[c], lclock - s.windowPeriod)) >= s.maxRequests

C39_BreakerInvariant ==
    cb.maxFailures >= 1 =>
        /\ cb.state \in {StateClosed, StateOpen, StateHalfOpen}
        /\ cb.state # StateHalfOpen => (cb.successes = 0 /\ cb.halfOpenAttempts = 0)
        /\ cb.state = StateClosed => cb.failures < cb.maxFailures
        /\ cb.halfOpenAttempts <= cb.halfOpenRequests

\* a HalfOpen breaker that has counted a success and used up its probes
C39_Witness ==
    /\ cb.state = StateHalfOpen
    /\ cb.successes >= 1
    /\ cb.halfOpenAttempts = cb.halfOpenRequests
    /\ cb.failures >= cb.maxFailures

\* the goroutine holds a result it has not put into the channel yet
Sending == hpc = "sending"

\* exactly one value goes through the channel: none before the send, and
\* after it the handler's result, in the buffer or taken by the middleware
OneValue ==
    /\ hpc \in {"none", "running", "sending"} => resultChan = <<>>
    /\ hpc = "delivered" =>
           \/ resultChan = <<hreturned>>
           \/ resultChan = <<>> /\ tpc = "done" /\ tresult = hreturned

\* C40: the goroutine a timeout middleware starts can always put its result
\* into the result channel without blocking (capacity one, one value), so it
\* ends as soon as the handler has returned, also when the middleware has
\* already returned its timeout error.
C40_GoroutineDelivers ==
    /\ [](Sending => SendReady(resultChan))
    /\ []OneValue
    /\ Sending ~> (hpc = "delivered")

\* the middleware has returned its timeout error and the handler, returning
\* after that, is about to send its result to a channel nobody reads
C40_Witness ==
    /\ TimedOut
    /\ Sending
    /\ tkind \in {"Timeout", "AdaptiveTimeout"}
====
